---------------------------- MODULE Spec2Model ----------------------------
(***************************************************************************)
(* A model of the BitSparrow codec (bitsparrow-rust): the Encoder of       *)
(* src/src/encode.rs, the Decoder of src/src/decode.rs and the size masks  *)
(* of src/src/utils.rs.                                                    *)
(*                                                                         *)
(* Numbers.  A byte is a natural number in 0..255.  A u16 is a natural     *)
(* number, an i8/i16/i32 an integer.  Values wider than 31 bits (u32, u64, *)
(* usize, i64, and the bit patterns of f32/f64) are sequences of 16-bit    *)
(* limbs, most significant limb first: u32 and f32 have 2 limbs, u64,      *)
(* usize and f64 have 4 (usize is 64 bits wide).  An i64 has 4 limbs, the  *)
(* first one signed (-32768..32767).                                       *)
(* A buffer is a sequence of bytes; the byte at Rust index i is buf[i+1].  *)
(***************************************************************************)
EXTENDS Integers, Sequences, FiniteSets

VARIABLES
    enc,      \* the Encoder: [data, bool_index, bool_shift]
    log,      \* the writes made on enc since it was created or last ended
    out,      \* the buffers end() has returned, each with the writes it holds
    dec,      \* the Decoder: [index, data, bool_index, bool_shift]
    reads,    \* the reads made on dec since it was created, with their results
    pc        \* "enc": writing; "dec": a Decoder is reading

vars == <<enc, log, out, dec, reads, pc>>

(***************************************************************************)
(* Bytes and bits                                                          *)
(***************************************************************************)
Byte == 0..255

Pow2(k) == 2^k

\* bit i (0 = least significant) of the natural number x
Bit(x, i) == (x \div Pow2(i)) % 2

\* a | b, a ^ b and !a on u8
BitOr8(a, b)  == LET m(i) == IF Bit(a, i) = 1 \/ Bit(b, i) = 1 THEN Pow2(i) ELSE 0
                 IN  m(0) + m(1) + m(2) + m(3) + m(4) + m(5) + m(6) + m(7)
BitXor8(a, b) == LET m(i) == IF Bit(a, i) # Bit(b, i) THEN Pow2(i) ELSE 0
                 IN  m(0) + m(1) + m(2) + m(3) + m(4) + m(5) + m(6) + m(7)
BitNot8(a)    == 255 - a

\* u8::leading_zeros and u16 leading zeros (one limb of u64::leading_zeros)
LeadingZeros8(x)  == IF x = 0 THEN 8
                     ELSE CHOOSE k \in 0..7 : x \div Pow2(7 - k) = 1
LeadingZeros16(x) == IF x = 0 THEN 16
                     ELSE CHOOSE k \in 0..15 : x \div Pow2(15 - k) = 1

(***************************************************************************)
(* Words: limb sequences                                                   *)
(***************************************************************************)
Limb == 0..65535

\* `x as u64` for a small natural number (a length, an index)
ToWord(x) == <<0, 0, x \div 65536, x % 65536>>

\* u64::leading_zeros
LeadingZeros64(w) ==
    IF w[1] # 0 THEN LeadingZeros16(w[1])
    ELSE IF w[2] # 0 THEN 16 + LeadingZeros16(w[2])
    ELSE IF w[3] # 0 THEN 32 + LeadingZeros16(w[3])
    ELSE 48 + LeadingZeros16(w[4])

\* `w as u8`
LowByte(w) == w[Len(w)] % 256

\* `w >>= 8`
Shr8(w) == [i \in 1..Len(w) |->
              (IF i = 1 THEN 0 ELSE (w[i - 1] % 256) * 256) + (w[i] \div 256)]

\* `(w << 8) | b` on a 64-bit word: the top byte is shifted out
Shl8Or(w, b) == [i \in 1..Len(w) |->
                   (w[i] % 256) * 256 + (IF i = Len(w) THEN b ELSE w[i + 1] \div 256)]

\* a < b on words of the same width
WordLess(a, b) ==
    \E i \in 1..Len(a) : a[i] < b[i] /\ \A j \in 1..(i - 1) : a[j] = b[j]

\* the bytes of a word, most significant first (to_be, then the bytes in memory order)
RECURSIVE ToBeBytes(_)
ToBeBytes(w) ==
    IF w = <<>> THEN <<>>
    ELSE <<Head(w) \div 256, Head(w) % 256>> \o ToBeBytes(Tail(w))

\* the word of big-endian bytes (the bytes in memory order, then from_be)
RECURSIVE FromBeBytes(_)
FromBeBytes(b) ==
    IF b = <<>> THEN <<>>
    ELSE <<b[1] * 256 + b[2]>> \o FromBeBytes(Tail(Tail(b)))

(***************************************************************************)
(* utils.rs                                                                *)
(***************************************************************************)
\* SIZE_MASKS with the last mask one bit short
SIZE_MASKS_Short == <<0, 128, 192, 224, 240, 248, 252, 254, 254>>

\* SIZE_MASKS[i] is SIZE_MASKS[i + 1] here
SIZE_MASKS == <<0, 128, 192, 224, 240, 248, 252, 254, 255>>

Ok(v)  == [ok |-> TRUE, val |-> v]
Err(x) == [ok |-> FALSE, val |-> x]

(***************************************************************************)
(* encode.rs: the Encoder                                                  *)
(***************************************************************************)
\* usize::MAX, the bool_index of an Encoder or Decoder with no boolean byte.
\* No buffer length of the model reaches it; it is written -1 here.
USIZE_MAX == -1

Encoder_new == [data |-> <<>>, bool_index |-> USIZE_MAX, bool_shift |-> 0]

\* e.data.push(..) / extend_from_slice(..) / the copy_nonoverlapping + set_len pairs
Push(e, bytes) == [e EXCEPT !.data = @ \o bytes]

Encoder_uint8(e, val) == Push(e, <<val>>)

\* impl BitEncode for i8: `*self as u8`
Encode_i8(e, val) == Push(e, <<val % 256>>)

\* impl_encodable!(u16) without to_be on a little-endian host
Encode_u16_HostOrder(e, val) == Push(e, <<val % 256, val \div 256>>)

\* impl_encodable!(u16): to_be, then the 2 bytes
Encode_u16(e, val) == Push(e, ToBeBytes(<<val>>))

\* impl_encodable!(u32), impl_encodable!(u64): val is a limb sequence
Encode_u32(e, val) == Push(e, ToBeBytes(val))
Encode_u64(e, val) == Push(e, ToBeBytes(val))

\* impl_encodable!(i16): the two's complement bits of val
Encode_i16(e, val) == Push(e, ToBeBytes(<<val % 65536>>))

\* impl_encodable!(i32): val is an integer in -2^31 .. 2^31-1
Encode_i32(e, val) == Push(e, ToBeBytes(<<(val \div 65536) % 65536, val % 65536>>))

\* impl_encodable!(i64): val has a signed first limb
Encode_i64(e, val) == Push(e, ToBeBytes(<<val[1] % 65536, val[2], val[3], val[4]>>))

\* impl BitEncode for f32 / f64: transmute to u32 / u64 (val is the bit pattern)
Encode_f32(e, val) == Encode_u32(e, val)
Encode_f64(e, val) == Encode_u64(e, val)

\* impl BitEncode for bool with the bits from the top down
Encode_bool_MsbFirst(e, val) ==
    LET bit   == IF val THEN 1 ELSE 0
        index == Len(e.data)
    IN  IF e.bool_index = index /\ e.bool_shift < 7
        THEN LET shift == e.bool_shift + 1
             IN  [e EXCEPT !.bool_shift = shift,
                           !.data[index] = BitOr8(@, bit * Pow2(7 - shift))]
        ELSE [data       |-> Append(e.data, bit * 128),
              bool_index |-> index + 1,
              bool_shift |-> 0]

\* impl BitEncode for bool that takes any last byte for the open byte
Encode_bool_NoIndexCheck(e, val) ==
    LET bit   == IF val THEN 1 ELSE 0
        index == Len(e.data)
    IN  IF e.bool_index # USIZE_MAX /\ index > 0 /\ e.bool_shift < 7
        THEN LET shift == e.bool_shift + 1
             IN  [e EXCEPT !.bool_shift = shift,
                           !.data[index] = BitOr8(@, bit * Pow2(shift))]
        ELSE [data       |-> Append(e.data, bit),
              bool_index |-> index + 1,
              bool_shift |-> 0]

\* impl BitEncode for bool with room for a 9th bool in the byte
Encode_bool_Nine(e, val) ==
    LET bit   == IF val THEN 1 ELSE 0
        index == Len(e.data)
    IN  IF e.bool_index = index /\ e.bool_shift < 8
        THEN LET shift == e.bool_shift + 1
             IN  [e EXCEPT !.bool_shift = shift,
                           !.data[index] = BitOr8(@, bit * Pow2(shift))]
        ELSE [data       |-> Append(e.data, bit),
              bool_index |-> index + 1,
              bool_shift |-> 0]

\* impl BitEncode for bool that stores the bit with = in place of |=
Encode_bool_Assign(e, val) ==
    LET bit   == IF val THEN 1 ELSE 0
        index == Len(e.data)
    IN  IF e.bool_index = index /\ e.bool_shift < 7
        THEN LET shift == e.bool_shift + 1
             IN  [e EXCEPT !.bool_shift = shift,
                           !.data[index] = bit * Pow2(shift)]
        ELSE [data       |-> Append(e.data, bit),
              bool_index |-> index + 1,
              bool_shift |-> 0]

\* impl BitEncode for bool
Encode_bool(e, val) ==
    LET bit   == IF val THEN 1 ELSE 0
        index == Len(e.data)
    IN  IF e.bool_index = index /\ e.bool_shift < 7
        THEN LET shift == e.bool_shift + 1
             IN  [e EXCEPT !.bool_shift = shift,
                           !.data[index] = BitOr8(@, bit * Pow2(shift))]
        ELSE [data       |-> Append(e.data, bit),
              bool_index |-> index + 1,
              bool_shift |-> 0]

\* `bytes` with lead / 7 and with (lead - 1) / 8
SizeBytes_Lead(lead) == IF lead = 0 THEN 9 ELSE 9 - (lead \div 7)
SizeBytes_Div8(lead) == IF lead = 0 THEN 9 ELSE 9 - ((lead - 1) \div 8)

\* the `bytes` of size_with_reserve, from lead = masked.leading_zeros()
SizeBytes(lead) == IF lead = 0 THEN 9 ELSE 9 - ((lead - 1) \div 7)

\* the loop of size_with_reserve: buf[i] = masked as u8; masked >>= 8, for i = bytes-1 down to 1.
\* Returns the bytes buf[1 .. bytes-1] and the masked left over.
RECURSIVE SizeLoop(_, _, _)
SizeLoop(masked, i, tail) ==
    IF i < 1 THEN [masked |-> masked, tail |-> tail]
    ELSE SizeLoop(Shr8(masked), i - 1, <<LowByte(masked)>> \o tail)

\* Encoder::size_with_reserve without `| SIZE_MASKS[bytes - 1]`
size_with_reserve_NoMask(e, size, item_size) ==
    IF size[1] = 0 /\ size[2] = 0 /\ size[3] = 0 /\ size[4] < 128
    THEN Push(e, <<LowByte(size)>>)
    ELSE LET lead  == LeadingZeros64(size)
             bytes == SizeBytes(lead)
             loop  == SizeLoop(size, bytes - 1, <<>>)
         IN  Push(e, <<LowByte(loop.masked)>> \o loop.tail)

\* Encoder::size_with_reserve (size is a usize word; the reserve calls change
\* the capacity only)
size_with_reserve(e, size, item_size) ==
    IF size[1] = 0 /\ size[2] = 0 /\ size[3] = 0 /\ size[4] < 128
    THEN Push(e, <<LowByte(size)>>)
    ELSE LET lead  == LeadingZeros64(size)
             bytes == SizeBytes(lead)
             loop  == SizeLoop(size, bytes - 1, <<>>)
             buf0  == BitOr8(LowByte(loop.masked), SIZE_MASKS[(bytes - 1) + 1])
         IN  Push(e, <<buf0>> \o loop.tail)

Encoder_size(e, val) == size_with_reserve(e, val, 0)

\* impl BitEncode for [u8] with the length in one byte
Encode_bytes_ByteLen(e, val) == Push(Encoder_uint8(e, Len(val) % 256), val)

\* impl BitEncode for [u8]: the size of the length, then the bytes
Encode_bytes(e, val) == Push(size_with_reserve(e, ToWord(Len(val)), 1), val)

\* impl BitEncode for &str / String: as_bytes() (val is the UTF-8 bytes)
Encode_str(e, val) == Encode_bytes(e, val)

\* impl BitEncode for [E] with E = bool: the size of the length, then each item
RECURSIVE EncodeItems_bool(_, _)
EncodeItems_bool(e, items) ==
    IF items = <<>> THEN e
    ELSE EncodeItems_bool(Encode_bool(e, Head(items)), Tail(items))

Encode_slice_bool(e, val) ==
    EncodeItems_bool(size_with_reserve(e, ToWord(Len(val)), 0), val)

\* Encoder::end that keeps the boolean cursor
Encoder_end_KeepCursor(e) == [e EXCEPT !.data = <<>>]

\* Encoder::end: the returned buffer is Encoder_end_buffer(e)
Encoder_end(e) == [data |-> <<>>, bool_index |-> USIZE_MAX, bool_shift |-> 0]
Encoder_end_buffer(e) == e.data

(***************************************************************************)
(* decode.rs: the Decoder.  A read returns [d |-> the Decoder after the    *)
(* read, r |-> Ok(value) or Err(error)].                                   *)
(***************************************************************************)
Decoder_new(data) ==
    [index |-> 0, data |-> data, bool_index |-> USIZE_MAX, bool_shift |-> 0]

\* Decoder::uint8
Decoder_uint8(d) ==
    IF d.index >= Len(d.data)
    THEN [d |-> d, r |-> Err("ReadingOutOfBounds")]
    ELSE [d |-> [d EXCEPT !.index = @ + 1], r |-> Ok(d.data[d.index + 1])]

\* read_bytes! that takes the bytes that are left when they are too few
read_bytes_TakeRest(d, size) ==
    LET end == d.index + size
    IN  IF end > Len(d.data)
        THEN [d |-> [d EXCEPT !.index = Len(d.data)], r |-> Err("ReadingOutOfBounds")]
        ELSE [d |-> [d EXCEPT !.index = end],
              r |-> Ok(FromBeBytes(SubSeq(d.data, d.index + 1, end)))]

\* read_bytes! that also rejects a value that ends at the end of the source
read_bytes_OffByOne(d, size) ==
    LET end == d.index + size
    IN  IF end >= Len(d.data)
        THEN [d |-> d, r |-> Err("ReadingOutOfBounds")]
        ELSE [d |-> [d EXCEPT !.index = end],
              r |-> Ok(FromBeBytes(SubSeq(d.data, d.index + 1, end)))]

\* read_bytes!(decoder, t) with size = size_of::<t>(): the value is the word
\* of the `size` bytes at index (from_be)
read_bytes(d, size) ==
    LET end == d.index + size
    IN  IF end > Len(d.data)
        THEN [d |-> d, r |-> Err("ReadingOutOfBounds")]
        ELSE [d |-> [d EXCEPT !.index = end],
              r |-> Ok(FromBeBytes(SubSeq(d.data, d.index + 1, end)))]

\* try!(x) followed by a conversion f of the value
MapOk(x, f(_)) == IF x.r.ok THEN [d |-> x.d, r |-> Ok(f(x.r.val))] ELSE x

U16OfWord(w) == w[1]
I8OfU8(b)    == IF b >= 128 THEN b - 256 ELSE b
I16OfWord(w) == IF w[1] >= 32768 THEN w[1] - 65536 ELSE w[1]
I32OfWord(w) == (IF w[1] >= 32768 THEN w[1] - 65536 ELSE w[1]) * 65536 + w[2]
I64OfWord(w) == <<IF w[1] >= 32768 THEN w[1] - 65536 ELSE w[1], w[2], w[3], w[4]>>
SameBits(w)  == w

Decoder_uint16(d)  == MapOk(read_bytes(d, 2), U16OfWord)
Decoder_uint32(d)  == read_bytes(d, 4)
Decoder_uint64(d)  == read_bytes(d, 8)
Decoder_int8(d)    == MapOk(Decoder_uint8(d), I8OfU8)
Decoder_int16(d)   == MapOk(read_bytes(d, 2), I16OfWord)
Decoder_int32(d)   == MapOk(read_bytes(d, 4), I32OfWord)
Decoder_int64(d)   == MapOk(read_bytes(d, 8), I64OfWord)
\* transmute of the u32 / u64 read: the same bits
Decoder_float32(d) == MapOk(Decoder_uint32(d), SameBits)
Decoder_float64(d) == MapOk(Decoder_uint64(d), SameBits)

\* Decoder::bool with no limit on the bits of a byte
Decoder_bool_NoLimit(d) ==
    IF d.bool_index = d.index
    THEN LET shift == d.bool_shift + 1
             bits  == d.data[(d.index - 1) + 1]
         IN  [d |-> [d EXCEPT !.bool_shift = shift], r |-> Ok(Bit(bits, shift) = 1)]
    ELSE LET x == Decoder_uint8(d)
         IN  IF ~x.r.ok THEN x
             ELSE [d |-> [x.d EXCEPT !.bool_index = x.d.index, !.bool_shift = 0],
                   r |-> Ok(Bit(x.r.val, 0) = 1)]

\* Decoder::bool with bool_index taken before the byte is read
Decoder_bool_StaleIndex(d) ==
    IF d.bool_index = d.index /\ d.bool_shift < 7
    THEN LET shift == d.bool_shift + 1
             bits  == d.data[(d.index - 1) + 1]
         IN  [d |-> [d EXCEPT !.bool_shift = shift], r |-> Ok(Bit(bits, shift) = 1)]
    ELSE LET x == Decoder_uint8(d)
         IN  IF ~x.r.ok THEN x
             ELSE [d |-> [x.d EXCEPT !.bool_index = d.index, !.bool_shift = 0],
                   r |-> Ok(Bit(x.r.val, 0) = 1)]

\* Decoder::bool without the test bool_index == index
Decoder_bool_NoIndexCheck(d) ==
    IF d.bool_index # USIZE_MAX /\ d.bool_shift < 7
    THEN LET shift == d.bool_shift + 1
             bits  == d.data[(d.bool_index - 1) + 1]
         IN  [d |-> [d EXCEPT !.bool_shift = shift], r |-> Ok(Bit(bits, shift) = 1)]
    ELSE LET x == Decoder_uint8(d)
         IN  IF ~x.r.ok THEN x
             ELSE [d |-> [x.d EXCEPT !.bool_index = x.d.index, !.bool_shift = 0],
                   r |-> Ok(Bit(x.r.val, 0) = 1)]

\* Decoder::bool
Decoder_bool(d) ==
    IF d.bool_index = d.index /\ d.bool_shift < 7
    THEN LET shift == d.bool_shift + 1
             bits  == d.data[(d.index - 1) + 1]
         IN  [d |-> [d EXCEPT !.bool_shift = shift], r |-> Ok(Bit(bits, shift) = 1)]
    ELSE LET x == Decoder_uint8(d)
         IN  IF ~x.r.ok THEN x
             ELSE [d |-> [x.d EXCEPT !.bool_index = x.d.index, !.bool_shift = 0],
                   r |-> Ok(Bit(x.r.val, 0) = 1)]

\* the while loop of Decoder::size
RECURSIVE SizeReadLoop(_, _, _)
SizeReadLoop(d, ext_bytes, size) ==
    IF ext_bytes = 0 THEN [d |-> d, r |-> Ok(size)]
    ELSE LET x == Decoder_uint8(d)
         IN  IF ~x.r.ok THEN x
             ELSE SizeReadLoop(x.d, ext_bytes - 1, Shl8Or(size, x.r.val))

\* Decoder::size that leaves the mask bits in the first byte
Decoder_size_KeepMask(d) ==
    LET x == Decoder_uint8(d)
    IN  IF ~x.r.ok THEN x
        ELSE LET high == x.r.val
             IN  IF Bit(high, 7) = 0
                 THEN [d |-> x.d, r |-> Ok(ToWord(high))]
                 ELSE LET ext_bytes == LeadingZeros8(BitNot8(high))
                      IN  SizeReadLoop(x.d, ext_bytes, ToWord(high))

\* Decoder::size: the value is a usize word
Decoder_size(d) ==
    LET x == Decoder_uint8(d)
    IN  IF ~x.r.ok THEN x
        ELSE LET high == x.r.val
             IN  IF Bit(high, 7) = 0
                 THEN [d |-> x.d, r |-> Ok(ToWord(high))]
                 ELSE LET ext_bytes == LeadingZeros8(BitNot8(high))
                          size      == ToWord(BitXor8(high, SIZE_MASKS[ext_bytes + 1]))
                      IN  SizeReadLoop(x.d, ext_bytes, size)

\* `len + index` on usize: the sum modulo 2^64 and whether it overflowed
AddWord(w, x) ==
    LET s4 == w[4] + x
        s3 == w[3] + (s4 \div 65536)
        s2 == w[2] + (s3 \div 65536)
        s1 == w[1] + (s2 \div 65536)
    IN  [sum      |-> <<s1 % 65536, s2 % 65536, s3 % 65536, s4 % 65536>>,
         overflow |-> s1 >= 65536]

\* a usize word that is a small number, as that number
IsSmall(w)   == w[1] = 0 /\ w[2] = 0 /\ w[3] < 16384
WordToNat(w) == w[3] * 65536 + w[4]

\* Decoder::bytes that puts the cursor back when the payload is too short
Decoder_bytes_RollBack(d, wraps) ==
    LET x == Decoder_size(d)
    IN  IF ~x.r.ok THEN x
        ELSE LET len == x.r.val
                 end == AddWord(len, x.d.index)
             IN  IF end.overflow /\ ~wraps
                 THEN [d |-> x.d, r |-> Err("Panic")]
                 ELSE IF ~IsSmall(end.sum) \/ WordToNat(end.sum) > Len(x.d.data)
                 THEN [d |-> d, r |-> Err("ReadingOutOfBounds")]
                 ELSE IF end.overflow
                 THEN [d |-> [x.d EXCEPT !.index = WordToNat(end.sum)],
                       r |-> [ok |-> TRUE, oob |-> TRUE,
                              val |-> SubSeq(x.d.data, x.d.index + 1, Len(x.d.data))]]
                 ELSE [d |-> [x.d EXCEPT !.index = WordToNat(end.sum)],
                       r |-> Ok(SubSeq(x.d.data, x.d.index + 1, WordToNat(end.sum)))]

\* Decoder::bytes.  `len + self.index` panics on overflow in a build with
\* overflow checks and wraps in one without: wraps says which build this is.
\* With the sum wrapped, end is below index, the check passes and the view
\* returned runs past the source (oob).
Decoder_bytes(d, wraps) ==
    LET x == Decoder_size(d)
    IN  IF ~x.r.ok THEN x
        ELSE LET len == x.r.val
                 end == AddWord(len, x.d.index)
             IN  IF end.overflow /\ ~wraps
                 THEN [d |-> x.d, r |-> Err("Panic")]
                 ELSE IF ~IsSmall(end.sum) \/ WordToNat(end.sum) > Len(x.d.data)
                 THEN [d |-> x.d, r |-> Err("ReadingOutOfBounds")]
                 ELSE IF end.overflow
                 THEN [d |-> [x.d EXCEPT !.index = WordToNat(end.sum)],
                       r |-> [ok |-> TRUE, oob |-> TRUE,
                              val |-> SubSeq(x.d.data, x.d.index + 1, Len(x.d.data))]]
                 ELSE [d |-> [x.d EXCEPT !.index = WordToNat(end.sum)],
                       r |-> Ok(SubSeq(x.d.data, x.d.index + 1, WordToNat(end.sum)))]

\* std::str::from_utf8 succeeds on b: the well-formed UTF-8 byte sequences
RECURSIVE IsUtf8(_)
IsUtf8(b) ==
    LET cont(i, lo, hi) == Len(b) >= i /\ b[i] >= lo /\ b[i] <= hi
        rest(n)         == IsUtf8(SubSeq(b, n + 1, Len(b)))
    IN  IF b = <<>> THEN TRUE
        ELSE IF b[1] <= 127 THEN rest(1)
        ELSE IF b[1] >= 194 /\ b[1] <= 223 THEN cont(2, 128, 191) /\ rest(2)
        ELSE IF b[1] = 224 THEN cont(2, 160, 191) /\ cont(3, 128, 191) /\ rest(3)
        ELSE IF b[1] = 237 THEN cont(2, 128, 159) /\ cont(3, 128, 191) /\ rest(3)
        ELSE IF b[1] >= 225 /\ b[1] <= 239
             THEN cont(2, 128, 191) /\ cont(3, 128, 191) /\ rest(3)
        ELSE IF b[1] = 240
             THEN cont(2, 144, 191) /\ cont(3, 128, 191) /\ cont(4, 128, 191) /\ rest(4)
        ELSE IF b[1] >= 241 /\ b[1] <= 243
             THEN cont(2, 128, 191) /\ cont(3, 128, 191) /\ cont(4, 128, 191) /\ rest(4)
        ELSE IF b[1] = 244
             THEN cont(2, 128, 143) /\ cont(3, 128, 191) /\ cont(4, 128, 191) /\ rest(4)
        ELSE FALSE

\* Decoder::string: from_utf8(try!(self.bytes())).map_err(Into::into)
Decoder_string(d, wraps) ==
    LET x == Decoder_bytes(d, wraps)
    IN  IF ~x.r.ok THEN x
        ELSE IF IsUtf8(x.r.val) THEN x
        ELSE [d |-> x.d, r |-> Err("Utf8Encoding")]

\* the rest of impl BitDecode for Vec<u8> after the size x was read: the
\* check of Decoder::bytes, then Vec::with_capacity(len) and the copy.  With
\* the sum wrapped len is above isize::MAX and Vec::with_capacity panics
\* (capacity overflow).
CopyToVec(x, wraps) ==
    IF ~x.r.ok THEN x
    ELSE LET len == x.r.val
             end == AddWord(len, x.d.index)
         IN  IF end.overflow /\ ~wraps
             THEN [d |-> x.d, r |-> Err("Panic")]
             ELSE IF ~IsSmall(end.sum) \/ WordToNat(end.sum) > Len(x.d.data)
             THEN [d |-> x.d, r |-> Err("ReadingOutOfBounds")]
             ELSE IF end.overflow
             THEN [d |-> x.d, r |-> Err("Panic")]
             ELSE [d |-> [x.d EXCEPT !.index = WordToNat(end.sum)],
                   r |-> Ok(SubSeq(x.d.data, x.d.index + 1, WordToNat(end.sum)))]

\* impl BitDecode for Vec<u8>
Decode_vec_u8(d, wraps) == CopyToVec(Decoder_size(d), wraps)

\* String::from_utf8 on the bytes x that were read
FromUtf8(x) ==
    IF ~x.r.ok THEN x
    ELSE IF IsUtf8(x.r.val) THEN x
    ELSE [d |-> x.d, r |-> Err("Utf8Encoding")]

\* impl BitDecode for String: String::from_utf8(try!(Vec<u8>::decode(d)))
Decode_String(d, wraps) == FromUtf8(Decode_vec_u8(d, wraps))

\* the for loop of impl BitDecode for Vec<D> with D = bool: n more items
RECURSIVE DecodeItems_bool(_, _, _)
DecodeItems_bool(d, n, vec) ==
    IF n = 0 THEN [d |-> d, r |-> Ok(vec)]
    ELSE LET x == Decoder_bool(d)
         IN  IF ~x.r.ok THEN x
             ELSE DecodeItems_bool(x.d, n - 1, Append(vec, x.r.val))

\* Vec::with_capacity(size) for items of item_bytes bytes each fails (a panic
\* with "capacity overflow", or an abort when the allocator refuses) when the
\* bytes asked for are above isize::MAX = 2^63 - 1.  Below that the
\* allocation is taken to succeed.
CapacityOverflow(size, item_bytes) == size[1] * item_bytes >= 32768

\* the items a loop of `size` item reads can reach on the source of d: every
\* item read takes a byte, or a bit of a byte, so a count above 8 * bytes + 1
\* fails no later than read 8 * bytes + 1
ItemsToRead(d, size) ==
    LET most == 8 * Len(d.data) + 1
    IN  IF IsSmall(size) /\ WordToNat(size) < most THEN WordToNat(size) ELSE most

\* the rest of impl BitDecode for Vec<D> with D = bool after the size x was
\* read (size_of::<bool>() = 1)
AllocAndReadBools(x) ==
    IF ~x.r.ok THEN x
    ELSE IF CapacityOverflow(x.r.val, 1) THEN [d |-> x.d, r |-> Err("Panic")]
    ELSE DecodeItems_bool(x.d, ItemsToRead(x.d, x.r.val), <<>>)

\* impl BitDecode for Vec<D> with D = bool
Decode_vec_bool(d) == AllocAndReadBools(Decoder_size(d))

\* Decoder::end with > for >=
Decoder_end_Past(d) == d.index > Len(d.data)

\* Decoder::end
Decoder_end(d) == d.index >= Len(d.data)

(***************************************************************************)
(* Writes and reads by name: what the Encoder and Decoder methods and      *)
(* Encoder::write / Decoder::read dispatch to                              *)
(***************************************************************************)
WriteOp(e, w) ==
    CASE w.op = "bool"       -> Encode_bool(e, w.val)
      [] w.op = "uint8"      -> Encoder_uint8(e, w.val)
      [] w.op = "uint16"     -> Encode_u16(e, w.val)
      [] w.op = "uint32"     -> Encode_u32(e, w.val)
      [] w.op = "uint64"     -> Encode_u64(e, w.val)
      [] w.op = "int8"       -> Encode_i8(e, w.val)
      [] w.op = "int16"      -> Encode_i16(e, w.val)
      [] w.op = "int32"      -> Encode_i32(e, w.val)
      [] w.op = "int64"      -> Encode_i64(e, w.val)
      [] w.op = "float32"    -> Encode_f32(e, w.val)
      [] w.op = "float64"    -> Encode_f64(e, w.val)
      [] w.op = "size"       -> Encoder_size(e, w.val)
      [] w.op = "bytes"      -> Encode_bytes(e, w.val)
      [] w.op = "string"     -> Encode_str(e, w.val)
      [] w.op = "slice_bool" -> Encode_slice_bool(e, w.val)

ReadOp(d, op, wraps) ==
    CASE op = "bool"       -> Decoder_bool(d)
      [] op = "uint8"      -> Decoder_uint8(d)
      [] op = "uint16"     -> Decoder_uint16(d)
      [] op = "uint32"     -> Decoder_uint32(d)
      [] op = "uint64"     -> Decoder_uint64(d)
      [] op = "int8"       -> Decoder_int8(d)
      [] op = "int16"      -> Decoder_int16(d)
      [] op = "int32"      -> Decoder_int32(d)
      [] op = "int64"      -> Decoder_int64(d)
      [] op = "float32"    -> Decoder_float32(d)
      [] op = "float64"    -> Decoder_float64(d)
      [] op = "size"       -> Decoder_size(d)
      [] op = "bytes"      -> Decoder_bytes(d, wraps)
      [] op = "string"     -> Decoder_string(d, wraps)
      [] op = "slice_bool" -> Decode_vec_bool(d)
      [] op = "vec_u8"     -> Decode_vec_u8(d, wraps)
      [] op = "String"     -> Decode_String(d, wraps)

\* the Encoder after the writes ws on the Encoder e
RECURSIVE WriteAll(_, _)
WriteAll(e, ws) == IF ws = <<>> THEN e ELSE WriteAll(WriteOp(e, Head(ws)), Tail(ws))

(***************************************************************************)
(* The state machine                                                       *)
(***************************************************************************)
Init ==
    /\ enc = Encoder_new
    /\ log = <<>>
    /\ out = <<>>
    /\ dec = Decoder_new(<<>>)
    /\ reads = <<>>
    /\ pc = "enc"

\* one write on the Encoder; the log keeps the buffer length after it
Write(op, val) ==
    /\ pc = "enc"
    /\ LET e2 == WriteOp(enc, [op |-> op, val |-> val])
       IN  /\ enc' = e2
           /\ log' = Append(log, [op |-> op, val |-> val, len |-> Len(e2.data)])
    /\ UNCHANGED <<out, dec, reads, pc>>

Write_bool(v)       == Write("bool", v)
Write_uint8(v)      == Write("uint8", v)
Write_uint16(v)     == Write("uint16", v)
Write_uint32(v)     == Write("uint32", v)
Write_uint64(v)     == Write("uint64", v)
Write_int8(v)       == Write("int8", v)
Write_int16(v)      == Write("int16", v)
Write_int32(v)      == Write("int32", v)
Write_int64(v)      == Write("int64", v)
Write_float32(v)    == Write("float32", v)
Write_float64(v)    == Write("float64", v)
Write_size(v)       == Write("size", v)
Write_bytes(v)      == Write("bytes", v)
Write_string(v)     == Write("string", v)
Write_slice_bool(v) == Write("slice_bool", v)

\* Encoder::end: the buffer is returned (kept in out with the writes it holds)
End ==
    /\ pc = "enc"
    /\ out' = Append(out, [buf |-> Encoder_end_buffer(enc), log |-> log])
    /\ enc' = Encoder_end(enc)
    /\ log' = <<>>
    /\ UNCHANGED <<dec, reads, pc>>

\* Decoder::new over the buffer end() has just returned
NewDecoder ==
    /\ pc = "enc"
    /\ out # <<>>
    /\ log = <<>>
    /\ dec' = Decoder_new(out[Len(out)].buf)
    /\ reads' = <<>>
    /\ pc' = "dec"
    /\ UNCHANGED <<enc, log, out>>

\* Decoder::new over any bytes
NewDecoderOn(src) ==
    /\ pc = "enc"
    /\ out = <<>>
    /\ log = <<>>
    /\ dec' = Decoder_new(src)
    /\ reads' = <<>>
    /\ pc' = "free"
    /\ UNCHANGED <<enc, log, out>>

\* the writes of the buffer the Decoder reads
Plan == out[Len(out)].log

\* reads keeps the result x of a read and the index after it
DidRead(op, x) ==
    /\ dec' = x.d
    /\ reads' = Append(reads, [op |-> op, r |-> x.r, index |-> x.d.index])
    /\ UNCHANGED <<enc, log, out, pc>>

\* one read
DoRead(op) == \E wraps \in BOOLEAN : DidRead(op, ReadOp(dec, op, wraps))

\* the reader follows the writer: the read of the type written next
ReadNext ==
    /\ pc = "dec"
    /\ Len(reads) < Len(Plan)
    /\ DoRead(Plan[Len(reads) + 1].op)

\* any read on a Decoder over any bytes
Read(op) ==
    /\ pc = "free"
    /\ DoRead(op)

(***************************************************************************)
(* Spec: writers that mix all types, end() and reuse the Encoder, and      *)
(* readers that follow them                                                *)
(***************************************************************************)
MaxWrites == 3
MaxEnds == 2

U64_MAX == <<65535, 65535, 65535, 65535>>
I32_MIN == -2147483647 - 1
I64_MIN == <<-32768, 0, 0, 0>>

\* the writes made so far, on all buffers
RECURSIVE Written(_)
Written(o) == IF o = <<>> THEN 0 ELSE Len(Head(o).log) + Written(Tail(o))

CanWrite == Written(out) + Len(log) < MaxWrites

Next ==
    \/ CanWrite /\ \E v \in BOOLEAN : Write_bool(v)
    \/ CanWrite /\ \E v \in {200} : Write_uint8(v)
    \/ CanWrite /\ \E v \in {9001} : Write_uint16(v)
    \/ CanWrite /\ \E v \in {<<65535, 65535>>} : Write_uint32(v)
    \/ CanWrite /\ \E v \in {U64_MAX} : Write_uint64(v)
    \/ CanWrite /\ \E v \in {-128} : Write_int8(v)
    \/ CanWrite /\ \E v \in {-2} : Write_int16(v)
    \/ CanWrite /\ \E v \in {I32_MIN} : Write_int32(v)
    \/ CanWrite /\ \E v \in {I64_MIN} : Write_int64(v)
    \/ CanWrite /\ \E v \in {<<16457, 4059>>} : Write_float32(v)
    \/ CanWrite /\ \E v \in {<<49161, 8699, 21572, 11544>>} : Write_float64(v)
    \/ CanWrite /\ \E v \in {<<0, 0, 0, 16383>>, U64_MAX} : Write_size(v)
    \/ CanWrite /\ \E v \in {<<>>, <<0, 255>>} : Write_bytes(v)
    \/ CanWrite /\ \E v \in {<<97, 98>>} : Write_string(v)
    \/ CanWrite /\ \E v \in {<<>>, <<TRUE>>} : Write_slice_bool(v)
    \/ Len(out) < MaxEnds /\ End
    \/ NewDecoder
    \/ ReadNext

Spec == Init /\ [][Next]_vars

(***************************************************************************)
(* C1                                                                      *)
(***************************************************************************)
\* the writes of a log, without the buffer lengths
Ops(l) == [i \in 1..Len(l) |-> [op |-> l[i].op, val |-> l[i].val]]

\* C1: a reader that follows the writer (the reads of the same types in the
\* same order on the buffer end() returned) gets back exactly the written
\* values, each read ends where the write ended, the boolean packer state of
\* the Decoder after n reads is the one the Encoder had after n writes, and
\* end() is true after the last read.
C1_RoundTrip ==
    pc = "dec" =>
        LET n == Len(reads)
            e == WriteAll(Encoder_new, SubSeq(Ops(Plan), 1, n))
        IN  /\ \A i \in 1..n : /\ reads[i].op = Plan[i].op
                               /\ reads[i].r = Ok(Plan[i].val)
                               /\ reads[i].index = Plan[i].len
            /\ dec.index = Len(e.data)
            /\ dec.bool_index = e.bool_index
            /\ dec.bool_shift = e.bool_shift
            /\ (n = Len(Plan) => Decoder_end(dec))

\* a bool, a size and a bool were written and read back
C1_Witness ==
    /\ pc = "dec"
    /\ Len(Plan) = 3
    /\ Len(reads) = 3
    /\ Plan[1].op = "bool" /\ Plan[2].op = "size" /\ Plan[3].op = "bool"
    /\ Plan[3].val = TRUE
    /\ reads[3].r = Ok(TRUE)

(***************************************************************************)
(* SpecSize: the size codec on sizes of the whole 64-bit range, and        *)
(* Decoder::size on sources with every first byte                          *)
(***************************************************************************)
MaxSizeReads == 2
MaxTail == 9

\* 2^p and 2^p - 1 as words, p in 0..63
PowWord(p)  == [i \in 1..4 |-> IF 4 - i = p \div 16 THEN Pow2(p % 16) ELSE 0]
OnesWord(p) == [i \in 1..4 |-> IF 4 - i < p \div 16 THEN 65535
                               ELSE IF 4 - i = p \div 16 THEN Pow2(p % 16) - 1
                               ELSE 0]
\* 2^p + (0x0123456789ABCDEF mod 2^p)
MixWord(p)  == LET pat == <<291, 17767, 35243, 52719>>
               IN  [i \in 1..4 |-> IF 4 - i < p \div 16 THEN pat[i]
                                   ELSE IF 4 - i = p \div 16
                                        THEN Pow2(p % 16) + (pat[i] % Pow2(p % 16))
                                   ELSE 0]

SizeInputs ==
    {PowWord(p) : p \in 0..63} \cup {OnesWord(p) : p \in 0..63}
        \cup {MixWord(p) : p \in 0..63} \cup {U64_MAX}

\* sources for Decoder::size: any first byte, then up to MaxTail bytes
Filler == <<1, 35, 69, 103, 137, 171, 205, 239, 254, 220>>
SizeSources ==
    {<<>>} \cup {<<h>> \o SubSeq(Filler, 1, t) : h \in Byte, t \in 0..MaxTail}

NextSize ==
    \/ log = <<>> /\ out = <<>> /\ \E n \in SizeInputs : Write_size(n)
    \/ log # <<>> /\ out = <<>> /\ End
    \/ NewDecoder
    \/ ReadNext
    \/ \E src \in SizeSources : NewDecoderOn(src)
    \/ Len(reads) < MaxSizeReads /\ Read("size")

SpecSize == Init /\ [][NextSize]_vars

\* the bytes write i of the log appended, and how many
LenBefore(l, i) == IF i = 1 THEN 0 ELSE l[i - 1].len
Appended(l, i)  == l[i].len - LenBefore(l, i)
BytesOf(buf, l, i) == SubSeq(buf, LenBefore(l, i) + 1, l[i].len)

\* C2: every size n of the word range is written (size() has no failure:
\* it appends at least one byte), and Decoder::size on the bytes end()
\* returned gives n back, ends where the write ended and leaves end() true.
C2_SizeRoundTrip ==
    /\ \A i \in 1..Len(log) : log[i].op = "size" => Appended(log, i) >= 1
    /\ pc = "dec" =>
          /\ \A i \in 1..Len(reads) : /\ reads[i].r = Ok(Plan[i].val)
                                      /\ reads[i].index = Plan[i].len
          /\ (Len(reads) = Len(Plan) => Decoder_end(dec) /\ dec.index = Len(dec.data))

\* the maximum word value was written in 9 bytes and read back
C2_Witness ==
    /\ pc = "dec"
    /\ Len(reads) = 1
    /\ Plan[1].val = U64_MAX
    /\ reads[1].r = Ok(U64_MAX)
    /\ dec.index = 9

\* the length the claim gives for the size n
ClaimedSizeLen(n) ==
    IF WordLess(n, PowWord(7)) THEN 1
    ELSE IF ~WordLess(n, PowWord(56)) THEN 9
    ELSE CHOOSE k \in 2..8 : ~WordLess(n, PowWord(7 * (k - 1))) /\ WordLess(n, PowWord(7 * k))

\* the table of the claim: 0x7F -> 1, 0x3FFF -> 2, ..., 0x00FFFFFFFFFFFFFF -> 8, max -> 9
SizeTable == {<<OnesWord(7 * k), k>> : k \in 1..8} \cup {<<U64_MAX, 9>>}

\* C3: size(n) appends 1 byte when n < 2^7, k bytes when 2^(7(k-1)) <= n < 2^(7k)
\* (2 <= k <= 8), 9 bytes when n >= 2^56; the table values have the table lengths.
C3_SizeLength ==
    \A i \in 1..Len(log) :
        log[i].op = "size" =>
            /\ Appended(log, i) = ClaimedSizeLen(log[i].val)
            /\ \A t \in SizeTable : log[i].val = t[1] => Appended(log, i) = t[2]

\* 0x00FFFFFFFFFFFFFF was written in 8 bytes
C3_Witness ==
    /\ Len(log) = 1
    /\ log[1].val = OnesWord(56)
    /\ Len(enc.data) = 8

\* the last m bytes of the 8 bytes of the word n
LowBytes(n, m) == SubSeq(ToBeBytes(n), 9 - m, 8)

\* C4: the bytes size(n) writes decode to n, and no shorter byte sequence
\* does: every byte sequence that Decoder::size decodes to n takes at least
\* as many bytes.  The sequences tried are any first byte followed by the low
\* m bytes of n, m in 0..8 (bytes read after the first become the low
\* bytes of the result, so any other tail decodes to another value).
C4_SizeMinimal ==
    (pc = "enc" /\ out = <<>>) =>
        \A i \in 1..Len(log) :
            log[i].op = "size" =>
                LET n == log[i].val
                    own == Decoder_size(Decoder_new(BytesOf(enc.data, log, i)))
                IN  /\ own.r = Ok(n)
                    /\ own.d.index = Appended(log, i)
                    /\ \A h \in Byte : \A m \in 0..8 :
                          LET x == Decoder_size(Decoder_new(<<h>> \o LowBytes(n, m)))
                          IN  (x.r.ok /\ x.r.val = n) => x.d.index >= Appended(log, i)

\* 2^14 was written in 3 bytes
C4_Witness ==
    /\ pc = "enc"
    /\ Len(log) = 1
    /\ log[1].val = PowWord(14)
    /\ enc.data = <<192, 64, 0>>

\* the number of leading one-bits of the byte b
LeadingOnes(b) ==
    Cardinality({k \in 1..8 : \A j \in 1..k : Bit(b, 8 - j) = 1})

\* C5: a successful Decoder::size consumes 1 byte when the top bit of the
\* first byte is 0 and 1 + (leading one-bits of the first byte) otherwise,
\* whatever follows; the first byte size(n) writes has (length - 1) leading
\* one-bits.
C5_SelfTerminating ==
    /\ \A i \in 1..Len(reads) :
          (reads[i].op = "size" /\ reads[i].r.ok) =>
              LET start == IF i = 1 THEN 0 ELSE reads[i - 1].index
                  first == dec.data[start + 1]
              IN  reads[i].index - start =
                      IF Bit(first, 7) = 0 THEN 1 ELSE 1 + LeadingOnes(first)
    /\ \A i \in 1..Len(log) :
          log[i].op = "size" =>
              LeadingOnes(enc.data[LenBefore(log, i) + 1]) = Appended(log, i) - 1

\* a size with four extension bytes was read from a source that goes on
\* after it, and then a second size
C5_Witness ==
    /\ pc = "free"
    /\ Len(reads) = 2
    /\ Len(dec.data) = 8
    /\ dec.data[1] = 240
    /\ reads[1].r.ok
    /\ reads[1].index = 5
    /\ reads[2].r.ok

(***************************************************************************)
(* SpecRun: long runs of bool writes, broken by uint8 writes               *)
(***************************************************************************)
MaxRunWrites == 12
MaxBreaks == 1

\* the writes of the log that are not bool writes
NonBools(l) == Cardinality({i \in 1..Len(l) : l[i].op # "bool"})

NextRun ==
    \/ Len(log) < MaxRunWrites /\ out = <<>> /\ \E v \in BOOLEAN : Write_bool(v)
    \/ /\ Len(log) < MaxRunWrites /\ out = <<>> /\ NonBools(log) < MaxBreaks
       /\ \E v \in {10} : Write_uint8(v)
    \/ log # <<>> /\ out = <<>> /\ End

SpecRun == Init /\ [][NextRun]_vars

\* the number of bool writes at the end of the log since the last write
\* that was not one
RECURSIVE RunLen(_)
RunLen(l) ==
    IF l = <<>> \/ l[Len(l)].op # "bool" THEN 0
    ELSE 1 + RunLen(SubSeq(l, 1, Len(l) - 1))

\* the byte with bit i equal to bs[i + 1] and the bits from Len(bs) up 0
RECURSIVE ByteOfBools(_)
ByteOfBools(bs) ==
    IF bs = <<>> THEN 0
    ELSE (IF Head(bs) THEN 1 ELSE 0) + 2 * ByteOfBools(Tail(bs))

\* C6: k consecutive bool writes b_0 .. b_(k-1), 1 <= k <= 8, that start on
\* an Encoder with no open boolean byte (a fresh one, or after a write that
\* is not a bool write, or after 8 bool writes have filled the byte) append
\* one byte, with bit i equal to b_i for i < k and the bits k..7 equal to 0.
\* Stated of the k bool writes that end the log.
C6_BoolLayout ==
    (pc = "enc" /\ RunLen(log) >= 1) =>
        LET n     == Len(log)
            k     == ((RunLen(log) - 1) % 8) + 1
            bs    == [i \in 1..k |-> log[n - k + i].val]
        IN  /\ Len(enc.data) = LenBefore(log, n - k + 1) + 1
            /\ enc.data[Len(enc.data)] = ByteOfBools(bs)
            /\ \A i \in 0..7 :
                  Bit(enc.data[Len(enc.data)], i) =
                      IF i < k /\ log[n - k + 1 + i].val THEN 1 ELSE 0

\* the bools true, false, false, false, false, true, true, true gave 0b11100001
C6_Witness ==
    /\ pc = "enc"
    /\ Len(log) = 8
    /\ \A i \in 1..8 : log[i].op = "bool"
    /\ [i \in 1..8 |-> log[i].val] = <<TRUE, FALSE, FALSE, FALSE, FALSE, TRUE, TRUE, TRUE>>
    /\ enc.data = <<225>>

\* C8: the first n writes on a fresh Encoder being bool writes, the buffer is
\* ceil(n / 8) bytes long after them: the 9th (17th, ...) opens a new byte;
\* 9 bools, a uint8 and a bool make 4 bytes.
C8_EightPerByte ==
    /\ \A j \in 1..Len(log) :
          (\A i \in 1..j : log[i].op = "bool") =>
              /\ log[j].len = (j + 7) \div 8
              /\ (j % 8 = 1 => Appended(log, j) = 1)
              /\ (j % 8 # 1 => Appended(log, j) = 0)
    /\ \A m \in 1..Len(out) :
          LET l == out[m].log
          IN  (/\ Len(l) = 11
               /\ \A i \in 1..9 : l[i].op = "bool"
               /\ l[10].op = "uint8"
               /\ l[11].op = "bool") => Len(out[m].buf) = 4

\* end() returned the 4 bytes of 9 bools, a uint8 and a bool
C8_Witness ==
    /\ Len(out) = 1
    /\ Len(out[1].log) = 11
    /\ \A i \in 1..9 : out[1].log[i].op = "bool"
    /\ out[1].log[10].op = "uint8"
    /\ out[1].log[11].op = "bool"
    /\ Len(out[1].buf) = 4

(***************************************************************************)
(* C7, C10 (Spec)                                                          *)
(***************************************************************************)
\* write j of the log is a bool write that follows a write that is not one,
\* with a bool write somewhere before
BoolAfterBreak(l, j) ==
    /\ j >= 3
    /\ l[j].op = "bool"
    /\ l[j - 1].op # "bool"
    /\ \E i \in 1..(j - 2) : l[i].op = "bool"

\* the bool write j appended a byte and its value is bit 0 of that byte
OpenedByte(l, j) ==
    /\ Appended(l, j) = 1
    /\ Bit(enc.data[l[j].len], 0) = (IF l[j].val THEN 1 ELSE 0)

\* C7 as claimed: a bool write that follows any write that is not a bool
\* write (a sequence write included) appends a new byte and its value is bit
\* 0 of that byte.
C7_Original ==
    pc = "enc" => \A j \in 1..Len(log) : BoolAfterBreak(log, j) => OpenedByte(log, j)

\* the last value the write w put on the buffer is a bool
EndsWithBool(w) == w.op = "bool" \/ (w.op = "slice_bool" /\ w.val # <<>>)

\* C7 amended: a bool write that follows a write that is not a bool write and
\* does not end with a bool element appends a new byte and its value is bit 0
\* of that byte.
C7_BreakClosesRun ==
    pc = "enc" =>
        \A j \in 1..Len(log) :
            (BoolAfterBreak(log, j) /\ ~EndsWithBool(log[j - 1])) => OpenedByte(log, j)

\* true, a uint8 and true were written: 3 bytes
C7_Witness ==
    /\ pc = "enc"
    /\ Len(log) = 3
    /\ log[1].op = "bool" /\ log[2].op = "uint8" /\ log[3].op = "bool"
    /\ log[1].val /\ log[3].val
    /\ enc.data = <<1, 200, 1>>

\* C10: every buffer end() returns, the first on an Encoder and the later ones
\* alike, is the buffer a fresh Encoder returns for the writes made since the
\* end() before; after end() the Encoder is as new; the Encoder in use always
\* holds what a fresh one would after the same writes.  (A returned buffer
\* is a value of its own: later writes do not reach it.)
C10_EndResets ==
    /\ \A m \in 1..Len(out) :
          out[m].buf = WriteAll(Encoder_new, Ops(out[m].log)).data
    /\ (pc = "enc" /\ log = <<>> /\ out # <<>>) => enc = Encoder_new
    /\ pc = "enc" => enc = WriteAll(Encoder_new, Ops(log))

\* the first message ended inside a boolean run, the second began with a
\* bool and a second bool went into the same byte
C10_Witness ==
    /\ Len(out) = 2
    /\ Len(out[1].log) = 1 /\ out[1].log[1].op = "bool" /\ out[1].buf = <<1>>
    /\ Len(out[2].log) = 2
    /\ out[2].log[1].op = "bool" /\ out[2].log[2].op = "bool"
    /\ out[2].buf = <<3>>

(***************************************************************************)
(* SpecDec: a Decoder over any bytes, bool reads and a few other reads     *)
(***************************************************************************)
MaxSrcLen == 2
MaxReads == 10
MaxOtherReads == 1

DecBytes == {0, 85, 225, 255}

RECURSIVE SeqsUpTo(_, _)
SeqsUpTo(S, n) ==
    IF n = 0 THEN {<<>>}
    ELSE SeqsUpTo(S, n - 1) \cup
         {Append(q, x) : q \in {r \in SeqsUpTo(S, n - 1) : Len(r) = n - 1}, x \in S}

DecSources == SeqsUpTo(DecBytes, MaxSrcLen)

CanRead      == Len(reads) < MaxReads
CanReadOther == CanRead /\ NonBools(reads) < MaxOtherReads

NextDec ==
    \/ \E src \in DecSources : NewDecoderOn(src)
    \/ CanRead /\ Read("bool")
    \/ CanReadOther /\ Read("uint8")
    \/ CanReadOther /\ Read("uint16")

SpecDec == Init /\ [][NextDec]_vars

\* the index before read i
IndexBefore(i) == IF i = 1 THEN 0 ELSE reads[i - 1].index

\* read s is a bool read that finds no open boolean byte: the first read of
\* the Decoder, or the read after a successful read that is not a bool read
RunStart(s) ==
    /\ reads[s].op = "bool"
    /\ s = 1 \/ (reads[s - 1].op # "bool" /\ reads[s - 1].r.ok)

\* C9: a bool read that finds no open boolean byte consumes one byte and
\* returns its bit 0 (ReadingOutOfBounds, the cursor unmoved, when none
\* remains); the next 7 consecutive bool reads return the bits 1..7 of that
\* byte and leave the cursor, also at the end of the source; the 9th consumes
\* the next byte and returns its bit 0, or fails with ReadingOutOfBounds.
C9_BoolCursor ==
    pc = "free" =>
        \A s \in 1..Len(reads) :
            RunStart(s) =>
                LET b0 == IndexBefore(s)
                    n  == Len(dec.data)
                IN  \A t \in 0..8 :
                        (s + t <= Len(reads) /\ \A u \in 0..t : reads[s + u].op = "bool") =>
                            LET rd == reads[s + t]
                            IN  IF b0 >= n
                                THEN t = 0 => (rd.r = Err("ReadingOutOfBounds") /\ rd.index = b0)
                                ELSE IF t <= 7
                                THEN rd.r = Ok(Bit(dec.data[b0 + 1], t) = 1) /\ rd.index = b0 + 1
                                ELSE IF b0 + 1 < n
                                THEN rd.r = Ok(Bit(dec.data[b0 + 2], 0) = 1) /\ rd.index = b0 + 2
                                ELSE rd.r = Err("ReadingOutOfBounds") /\ rd.index = b0 + 1

\* after a uint8, 8 bool reads took the bits of the last byte, at the end of
\* the source, and the 9th failed
C9_Witness ==
    /\ pc = "free"
    /\ dec.data = <<0, 225>>
    /\ Len(reads) = 10
    /\ reads[1].op = "uint8"
    /\ \A i \in 2..10 : reads[i].op = "bool"
    /\ [i \in 1..8 |-> reads[i + 1].r.val] = <<TRUE, FALSE, FALSE, FALSE, FALSE, TRUE, TRUE, TRUE>>
    /\ reads[10].r = Err("ReadingOutOfBounds")
    /\ dec.index = 2

(***************************************************************************)
(* SpecMerge: two buffers, each returned by end(), concatenated and read   *)
(* by one Decoder                                                          *)
(***************************************************************************)
MaxMergeWrites == 4

\* the writes of the two buffers, one after the other
MergedPlan == out[1].log \o out[2].log

\* Decoder::new over the first buffer followed by the second
NewDecoderMerged ==
    /\ pc = "enc"
    /\ Len(out) = 2
    /\ log = <<>>
    /\ dec' = Decoder_new(out[1].buf \o out[2].buf)
    /\ reads' = <<>>
    /\ pc' = "merged"
    /\ UNCHANGED <<enc, log, out>>

\* the reads of the first buffer's writes, then those of the second's
ReadMerged ==
    /\ pc = "merged"
    /\ Len(reads) < Len(MergedPlan)
    /\ DoRead(MergedPlan[Len(reads) + 1].op)

CanWriteMerge == Len(out) < 2 /\ Written(out) + Len(log) < MaxMergeWrites

NextMerge ==
    \/ CanWriteMerge /\ \E v \in BOOLEAN : Write_bool(v)
    \/ CanWriteMerge /\ \E v \in {200} : Write_uint8(v)
    \/ CanWriteMerge /\ \E v \in {9001} : Write_uint16(v)
    \/ CanWriteMerge /\ \E v \in {<<7>>} : Write_bytes(v)
    \/ CanWriteMerge /\ \E v \in {<<TRUE>>} : Write_slice_bool(v)
    \/ Len(out) < 2 /\ End
    \/ NewDecoderMerged
    \/ ReadMerged

SpecMerge == Init /\ [][NextMerge]_vars

\* every read made so far returned the value written
MergedReadsRight ==
    /\ \A i \in 1..Len(reads) : reads[i].r = Ok(MergedPlan[i].val)
    /\ (Len(reads) = Len(MergedPlan) => Decoder_end(dec))

\* each buffer is the one a private Encoder returns for its writes
PrivateBuffers ==
    \A m \in 1..Len(out) :
        out[m].buf = Encoder_end_buffer(WriteAll(Encoder_new, Ops(out[m].log)))

OpenRunMeetsBool ==
    LET e1 == WriteAll(Encoder_new, Ops(out[1].log))
    IN  /\ out[1].log # <<>> /\ out[2].log # <<>>
        /\ e1.bool_index = Len(e1.data) /\ e1.bool_shift < 7
        /\ out[2].log[1].op = "bool"

RECURSIVE Decode_tuple(_, _, _, _)
Decode_tuple(d, ops, wraps, acc) ==
    IF ops = <<>> THEN [d |-> d, r |-> Ok(acc)]
    ELSE LET x == ReadOp(d, Head(ops), wraps)
         IN  IF ~x.r.ok THEN x
             ELSE Decode_tuple(x.d, Tail(ops), wraps, Append(acc, x.r.val))

\* a type to decode: one with a read of its own, or a tuple of such types
Prim(op)   == [kind |-> "prim", op |-> op]
Tuple(ops) == [kind |-> "tuple", ops |-> ops]

\* BitDecode::decode for the type T
BitDecode_decode(d, T, wraps) ==
    IF T.kind = "tuple" THEN Decode_tuple(d, T.ops, wraps, <<>>)
    ELSE ReadOp(d, T.op, wraps)

\* Decoder::decode that returns the value whatever is left unread
Decoder_decode_NoEndCheck(data, T, wraps) ==
    BitDecode_decode(Decoder_new(data), T, wraps)

\* the end of Decoder::decode: x is what decoding the type gave
EndCheck(x) ==
    IF ~x.r.ok THEN x
    ELSE IF ~Decoder_end(x.d) THEN [d |-> x.d, r |-> Err("BufferNotEmpty")]
    ELSE x

\* Decoder::decode: the Decoder it made (d) and what it returns (r)
Decoder_decode(data, T, wraps) ==
    EndCheck(BitDecode_decode(Decoder_new(data), T, wraps))

(***************************************************************************)
(* SpecWhole: Decoder::decode of one type on any bytes                     *)
(***************************************************************************)
MaxWholeLen == 3

WholeBytes == {0, 1, 2, 85, 225, 255}
WholeSources == SeqsUpTo(WholeBytes, MaxWholeLen)

\* reads keeps the type T, what decoding T gave on a Decoder of its own (p)
\* and what Decoder::decode returned (x)
Decoded(T, src, x, p) ==
    /\ dec' = x.d
    /\ reads' = <<[op |-> T, r |-> x.r, index |-> x.d.index,
                   part |-> p.r, left |-> Len(src) - p.d.index]>>

\* Decoder::decode::<T>(src)
Decode(T, src) ==
    /\ pc = "enc"
    /\ out = <<>>
    /\ log = <<>>
    /\ \E wraps \in BOOLEAN :
          Decoded(T, src, Decoder_decode(src, T, wraps),
                  BitDecode_decode(Decoder_new(src), T, wraps))
    /\ pc' = "whole"
    /\ UNCHANGED <<enc, log, out>>

\* the types decoded whole
WholeTypes ==
    {Prim(op) : op \in {"bool", "uint8", "uint16", "size", "bytes", "string", "slice_bool"}}
        \cup {Tuple(<<"uint8", "bool">>), Tuple(<<"bool", "bool", "uint8">>)}

NextWhole ==
    \E src \in WholeSources, T \in WholeTypes : Decode(T, src)

SpecWhole == Init /\ [][NextWhole]_vars

\* C12: Decoder::decode::<T>(data) returns the decoded value exactly when
\* decoding T succeeds and nothing is left unread, BufferNotEmpty exactly
\* when decoding T succeeds and at least one byte is left, and the error of
\* decoding T when that fails.
C12_WholeBuffer ==
    pc = "whole" =>
        LET w == reads[1]
        IN  /\ (w.r.ok <=> (w.part.ok /\ w.left = 0))
            /\ (w.r.ok => w.r = w.part)
            /\ (w.r = Err("BufferNotEmpty") <=> (w.part.ok /\ w.left >= 1))
            /\ (~w.part.ok => (w.r = w.part /\ w.r # Err("BufferNotEmpty")))

\* a (u8, bool) tuple was decoded from 3 bytes: the tuple was read and a
\* byte is left, so decode returned BufferNotEmpty
C12_Witness ==
    /\ pc = "whole"
    /\ reads[1].op = Tuple(<<"uint8", "bool">>)
    /\ Len(dec.data) = 3
    /\ reads[1].r = Err("BufferNotEmpty")
    /\ reads[1].part = Ok(<<85, TRUE>>)

(***************************************************************************)
(* SpecTrunc: fixed-width and size reads at any cursor position of sources *)
(* of every length up to MaxTruncTail + 1                                  *)
(***************************************************************************)
MaxTruncTail == 9
MaxTruncReads == 2

\* first bytes with 0..8 leading one-bits
TruncHeads == {0, 127, 128, 191, 192, 224, 240, 248, 252, 254, 255}
TruncSources ==
    {<<>>} \cup {<<h>> \o SubSeq(Filler, 1, t) : h \in TruncHeads, t \in 0..MaxTruncTail}

CanReadTrunc == Len(reads) < MaxTruncReads

\* the fixed-width reads and the size read
TruncOps ==
    {"uint8", "uint16", "uint32", "uint64", "int8", "int16", "int32", "int64",
     "float32", "float64", "size"}

NextTrunc ==
    \/ \E src \in TruncSources : NewDecoderOn(src)
    \/ CanReadTrunc /\ \E op \in TruncOps : Read(op)

SpecTrunc == Init /\ [][NextTrunc]_vars

\* the bytes of a fixed-width value, by the read
WidthOf(op) ==
    CASE op \in {"uint8", "int8"}               -> 1
      [] op \in {"uint16", "int16"}             -> 2
      [] op \in {"uint32", "int32", "float32"}  -> 4
      [] op \in {"uint64", "int64", "float64"}  -> 8

\* the bytes read i needs from the cursor on: the width of a fixed-width
\* value; for a size the first byte and the extension bytes it announces
Needed(i) ==
    LET b0 == IndexBefore(i)
    IN  IF reads[i].op # "size" THEN WidthOf(reads[i].op)
        ELSE IF b0 >= Len(dec.data) THEN 1
        ELSE 1 + LeadingOnes(dec.data[b0 + 1])

\* C13: a fixed-width or size read fails with ReadingOutOfBounds when fewer
\* bytes remain at the cursor than it needs, and succeeds when at least that
\* many remain (then it consumes exactly that many).
C13_Truncated ==
    pc = "free" =>
        \A i \in 1..Len(reads) :
            LET remaining == Len(dec.data) - IndexBefore(i)
            IN  IF remaining < Needed(i)
                THEN reads[i].r = Err("ReadingOutOfBounds")
                ELSE reads[i].r.ok /\ reads[i].index = IndexBefore(i) + Needed(i)

\* a uint16 was read from a source of 5 bytes, then a uint32 failed with 3
\* bytes left
C13_Witness ==
    /\ pc = "free"
    /\ Len(dec.data) = 5
    /\ Len(reads) = 2
    /\ reads[1].op = "uint16" /\ reads[1].r.ok
    /\ reads[2].op = "uint32" /\ reads[2].r = Err("ReadingOutOfBounds")

(***************************************************************************)
(* SpecBlob: blob reads on sources whose length prefix is any size, the    *)
(* largest included                                                        *)
(***************************************************************************)
MaxBlobTail == 3
MaxBlobReads == 2

\* length prefixes: 0, 2, 5, 3 in two bytes, 2^64 - 9, 2^64 - 2, 2^64 - 1,
\* and 2^56 + 1
BlobHeads ==
    { <<0>>, <<2>>, <<5>>, <<128, 3>>,
      <<255, 255, 255, 255, 255, 255, 255, 255, 247>>,
      <<255, 255, 255, 255, 255, 255, 255, 255, 254>>,
      <<255, 255, 255, 255, 255, 255, 255, 255, 255>>,
      <<255, 1, 0, 0, 0, 0, 0, 0, 1>> }

\* payloads: text, and bytes that are not UTF-8
BlobTails == {SubSeq(<<97, 98, 99, 100, 101, 102>>, 1, t) : t \in 0..MaxBlobTail}
                 \cup {SubSeq(<<97, 255, 98, 99, 100, 101>>, 1, t) : t \in 0..MaxBlobTail}

BlobSources == {h \o t : h \in BlobHeads, t \in BlobTails}

CanReadBlob == Len(reads) < MaxBlobReads

NextBlob ==
    \/ \E src \in BlobSources : NewDecoderOn(src)
    \/ CanReadBlob /\ Read("bytes")
    \/ CanReadBlob /\ Read("string")
    \/ CanReadBlob /\ Read("vec_u8")
    \/ CanReadBlob /\ Read("String")
    \/ CanReadBlob /\ Read("uint8")

SpecBlob == Init /\ [][NextBlob]_vars

BlobReads == {"bytes", "string", "vec_u8", "String"}

\* the length prefix read i finds at the cursor: what Decoder::size gives there
PrefixOf(i) == Decoder_size([dec EXCEPT !.index = IndexBefore(i)])

\* the word w is a number above the small number n
WordAbove(w, n) == ~IsSmall(w) \/ WordToNat(w) > n

\* C14 as claimed: a blob read whose length prefix L is above the number of
\* bytes that remain after the prefix fails with ReadingOutOfBounds, for every
\* L up to 2^64 - 1, and no blob read returns a view that runs past the source.
C14_Original ==
    pc = "free" =>
        \A i \in 1..Len(reads) :
            reads[i].op \in BlobReads =>
                LET p == PrefixOf(i)
                IN  /\ (p.r.ok /\ WordAbove(p.r.val, Len(dec.data) - p.d.index))
                          => reads[i].r = Err("ReadingOutOfBounds")
                    /\ reads[i].r.ok => "oob" \notin DOMAIN reads[i].r

\* C15 as claimed: on any bytes every read of any sequence of reads returns a
\* value or one of the errors ReadingOutOfBounds and Utf8Encoding: none
\* panics, none returns bytes from outside the source, and the cursor stays
\* within the source.
C15_Original ==
    pc = "free" =>
        /\ dec.index <= Len(dec.data)
        /\ \A i \in 1..Len(reads) :
              \/ reads[i].r.ok /\ DOMAIN reads[i].r = {"ok", "val"}
              \/ reads[i].r \in {Err("ReadingOutOfBounds"), Err("Utf8Encoding")}

(***************************************************************************)
(* Sequences of any item type                                              *)
(***************************************************************************)
\* E::size_hint() and size_of::<D>() of the item types used here
SizeHint(op) ==
    CASE op = "bool" -> 0 [] op = "uint16" -> 2 [] op = "float32" -> 8
ItemBytes(op) ==
    CASE op = "bool" -> 1 [] op = "uint16" -> 2 [] op = "float32" -> 4

\* for item in self { BitEncode::encode(item, e) }
RECURSIVE EncodeItems(_, _, _)
EncodeItems(e, op, items) ==
    IF items = <<>> THEN e
    ELSE EncodeItems(WriteOp(e, [op |-> op, val |-> Head(items)]), op, Tail(items))

\* impl BitEncode for [E] that writes the length in bytes
Encode_slice_ByteLen(e, op, items) ==
    EncodeItems(size_with_reserve(e, ToWord(Len(items) * ItemBytes(op)), SizeHint(op)),
                op, items)

\* impl BitEncode for [E] (and &[E], Vec<E>, [E; N], which call it)
Encode_slice(e, op, items) ==
    EncodeItems(size_with_reserve(e, ToWord(Len(items)), SizeHint(op)), op, items)

\* for _ in 0..size { vec.push(try!(D::decode(d))) }
RECURSIVE DecodeItems(_, _, _, _, _)
DecodeItems(d, op, wraps, n, vec) ==
    IF n = 0 THEN [d |-> d, r |-> Ok(vec)]
    ELSE LET x == ReadOp(d, op, wraps)
         IN  IF ~x.r.ok THEN x
             ELSE DecodeItems(x.d, op, wraps, n - 1, Append(vec, x.r.val))

\* the rest of impl BitDecode for Vec<D> after the size x was read
AllocAndRead(x, op, wraps) ==
    IF ~x.r.ok THEN x
    ELSE IF CapacityOverflow(x.r.val, ItemBytes(op)) THEN [d |-> x.d, r |-> Err("Panic")]
    ELSE DecodeItems(x.d, op, wraps, ItemsToRead(x.d, x.r.val), <<>>)

\* impl BitDecode for Vec<D>
Decode_vec(d, op, wraps) == AllocAndRead(Decoder_size(d), op, wraps)

(***************************************************************************)
(* SpecSeq: sequences written whole or item by item, read whole or item by *)
(* item                                                                    *)
(***************************************************************************)
MaxSeqWrites == 3

\* Encoder::write(&items[..]); the log keeps the Encoder it was made on
WriteSlice(op, items) ==
    /\ pc = "enc"
    /\ enc' = Encode_slice(enc, op, items)
    /\ log' = Append(log, [op |-> "slice", item |-> op, val |-> items,
                           len |-> Len(enc'.data), before |-> enc])
    /\ UNCHANGED <<out, dec, reads, pc>>

\* a write as the writes of its parts: a sequence is its size, then its
\* items; a tuple is its elements
ElementWise(w) ==
    IF w.op = "slice"
    THEN <<[op |-> "size", val |-> ToWord(Len(w.val))]>>
             \o [i \in 1..Len(w.val) |-> [op |-> w.item, val |-> w.val[i]]]
    ELSE IF w.op = "tuple"
    THEN [i \in 1..Len(w.val) |-> [op |-> w.item[i], val |-> w.val[i]]]
    ELSE <<[op |-> w.op, val |-> w.val]>>

RECURSIVE Flat(_)
Flat(l) == IF l = <<>> THEN <<>> ELSE ElementWise(Head(l)) \o Flat(Tail(l))

\* the item-wise writes of the buffer the Decoder reads
FlatPlan == Flat(Plan)

\* the item-wise writes the reads rs have taken
RECURSIVE Consumed(_)
Consumed(rs) ==
    IF rs = <<>> THEN 0
    ELSE LET last == rs[Len(rs)]
         IN  Consumed(SubSeq(rs, 1, Len(rs) - 1))
                 + (IF last.op = "vec" /\ last.r.ok THEN 1 + Len(last.r.val)
                    ELSE IF last.op = "tuple" THEN Len(last.item)
                    ELSE 1)

\* the read of the item written next
ReadElem ==
    /\ pc = "dec"
    /\ Consumed(reads) < Len(FlatPlan)
    /\ DoRead(FlatPlan[Consumed(reads) + 1].op)

\* reads keeps the result x of a Vec read and the Decoder it was made on
DidReadVec(op, x) ==
    /\ dec' = x.d
    /\ reads' = Append(reads, [op |-> "vec", item |-> op, r |-> x.r,
                               index |-> x.d.index, before |-> dec])
    /\ UNCHANGED <<enc, log, out, pc>>

\* read::<Vec<D>>() where a size n and n items of type D were written
ReadVec(op) ==
    /\ pc = "dec"
    /\ LET k == Consumed(reads)
       IN  /\ k < Len(FlatPlan)
           /\ FlatPlan[k + 1].op = "size"
           /\ LET n == WordToNat(FlatPlan[k + 1].val)
              IN  /\ k + 1 + n <= Len(FlatPlan)
                  /\ \A j \in 1..n : FlatPlan[k + 1 + j].op = op
    /\ \E wraps \in BOOLEAN : DidReadVec(op, Decode_vec(dec, op, wraps))

CanWriteSeq == Len(log) < MaxSeqWrites /\ out = <<>>

SliceInputs ==
    { <<"bool", <<>>>>, <<"bool", <<FALSE, TRUE>>>>,
      <<"uint16", <<1, 65535>>>>,
      <<"float32", <<<<16457, 4059>>>>>> }

NextSeq ==
    \/ CanWriteSeq /\ \E v \in BOOLEAN : Write_bool(v)
    \/ CanWriteSeq /\ \E v \in {9001} : Write_uint16(v)
    \/ CanWriteSeq /\ \E v \in {<<16457, 4059>>} : Write_float32(v)
    \/ CanWriteSeq /\ \E n \in 0..2 : Write_size(ToWord(n))
    \/ CanWriteSeq /\ \E s \in SliceInputs : WriteSlice(s[1], s[2])
    \/ log # <<>> /\ out = <<>> /\ End
    \/ NewDecoder
    \/ ReadElem
    \/ \E op \in {"bool", "uint16", "float32"} : ReadVec(op)

SpecSeq == Init /\ [][NextSeq]_vars

\* size() followed by that many reads of the item type, collected in order
RECURSIVE ReadsInOrder(_, _, _, _)
ReadsInOrder(d, op, n, got) ==
    IF n = 0 THEN [d |-> d, r |-> Ok(got)]
    ELSE LET x == ReadOp(d, op, FALSE)
         IN  IF ~x.r.ok THEN x
             ELSE ReadsInOrder(x.d, op, n - 1, Append(got, x.r.val))

SizeThenReads(d, op) ==
    LET s == Decoder_size(d)
    IN  IF ~s.r.ok THEN s ELSE ReadsInOrder(s.d, op, WordToNat(s.r.val), <<>>)

\* the values written for the items read i takes
ValuesFor(i) ==
    LET k == Consumed(SubSeq(reads, 1, i - 1))
    IN  IF reads[i].op = "vec"
        THEN [j \in 1..WordToNat(FlatPlan[k + 1].val) |-> FlatPlan[k + 1 + j].val]
        ELSE FlatPlan[k + 1].val

\* C16: a sequence written through BitEncode leaves the Encoder as the writes
\* size(n), x_1, ..., x_n made on the same Encoder do (the same bytes and the
\* same boolean cursor); a Vec read gives what size() followed by that many
\* item reads gives, and leaves the same Decoder; written either way and read
\* either way, the values come back in order and end() is true after the last.
C16_SequenceFormat ==
    /\ (pc = "enc" /\ log # <<>> /\ log[Len(log)].op = "slice") =>
          enc = WriteAll(log[Len(log)].before, ElementWise(log[Len(log)]))
    /\ pc = "dec" =>
          /\ \A i \in 1..Len(reads) : reads[i].r = Ok(ValuesFor(i))
          /\ (Consumed(reads) = Len(FlatPlan) => Decoder_end(dec))
          /\ (reads # <<>> /\ reads[Len(reads)].op = "vec") =>
                LET last == reads[Len(reads)]
                IN  [d |-> dec, r |-> last.r] = SizeThenReads(last.before, last.item)

\* true was written, then the sequence [false, true] as a whole: 3 bytes; it
\* was read back as a bool, a size and two bools
C16_Witness ==
    /\ pc = "dec"
    /\ Len(Plan) = 2
    /\ Plan[1].op = "bool"
    /\ Plan[2].op = "slice" /\ Plan[2].item = "bool" /\ Plan[2].val = <<FALSE, TRUE>>
    /\ dec.data = <<1, 2, 2>>
    /\ Len(reads) = 4
    /\ reads[4].r = Ok(TRUE)

(***************************************************************************)
(* SpecVec: Vec reads on sources whose item count is any size              *)
(***************************************************************************)
MaxVecTail == 4
MaxVecReads == 2

\* item counts: 0, 1, 2, 3, 200, 2^63 and 2^64 - 1
VecHeads ==
    { <<0>>, <<1>>, <<2>>, <<3>>, <<128, 200>>,
      <<255, 128, 0, 0, 0, 0, 0, 0, 0>>,
      <<255, 255, 255, 255, 255, 255, 255, 255, 255>> }

VecSources == {h \o SubSeq(Filler, 1, t) : h \in VecHeads, t \in 0..MaxVecTail}

\* read::<Vec<D>>() on any bytes
ReadVecFree(op) ==
    /\ pc = "free"
    /\ \E wraps \in BOOLEAN : DidReadVec(op, Decode_vec(dec, op, wraps))

CanReadVec == Len(reads) < MaxVecReads

NextVec ==
    \/ \E src \in VecSources : NewDecoderOn(src)
    \/ CanReadVec /\ \E op \in {"bool", "uint16", "float32"} : ReadVecFree(op)
    \/ CanReadVec /\ Read("slice_bool")
    \/ CanReadVec /\ Read("uint8")

SpecVec == Init /\ [][NextVec]_vars

\* the complete items of the type that follow the cursor of d: 8 booleans a
\* byte (the size read before them closed any boolean byte), else by the width
CompleteItems(d, op) ==
    LET left == Len(d.data) - d.index
    IN  IF op = "bool" THEN 8 * left ELSE left \div ItemBytes(op)

\* the Decoder read i was made on, and the item type it reads
VecReadOf(i) ==
    IF reads[i].op = "vec"
    THEN [on |-> reads[i].before, item |-> reads[i].item]
    ELSE [on |-> [dec EXCEPT !.index = IndexBefore(i)], item |-> "bool"]

\* C17 as claimed: a Vec read whose item count n is above the number of
\* complete items that follow fails with ReadingOutOfBounds, for every n up
\* to 2^64 - 1.
C17_Original ==
    pc = "free" =>
        \A i \in 1..Len(reads) :
            reads[i].op \in {"vec", "slice_bool"} =>
                LET s == Decoder_size(VecReadOf(i).on)
                IN  (s.r.ok /\ WordAbove(s.r.val, CompleteItems(s.d, VecReadOf(i).item)))
                        => reads[i].r = Err("ReadingOutOfBounds")

(***************************************************************************)
(* Tuples written (impl_tuple! of encode.rs)                               *)
(***************************************************************************)
\* impl_tuple! that writes the arity as a size before the elements
Encode_tuple_WithArity(e, ops, vals) ==
    WriteAll(Encoder_size(e, ToWord(Len(ops))),
             [i \in 1..Len(ops) |-> [op |-> ops[i], val |-> vals[i]]])

\* impl_tuple! of encode.rs: $( self.$n.encode(e); )*, the elements written
\* in declared order (e.data.reserve changes no byte)
RECURSIVE Encode_tuple(_, _, _)
Encode_tuple(e, ops, vals) ==
    IF ops = <<>> THEN e
    ELSE Encode_tuple(WriteOp(e, [op |-> Head(ops), val |-> Head(vals)]),
                      Tail(ops), Tail(vals))

(***************************************************************************)
(* SpecTuple: tuples written and read whole or element by element          *)
(***************************************************************************)
MaxTupleWrites == 3

\* Encoder::write(tuple); the log keeps the Encoder it was made on
WriteTuple(ops, vals) ==
    /\ pc = "enc"
    /\ enc' = Encode_tuple(enc, ops, vals)
    /\ log' = Append(log, [op |-> "tuple", item |-> ops, val |-> vals,
                           len |-> Len(enc'.data), before |-> enc])
    /\ UNCHANGED <<out, dec, reads, pc>>

\* reads keeps the result x of a tuple read and the Decoder it was made on
DidReadTuple(ops, x) ==
    /\ dec' = x.d
    /\ reads' = Append(reads, [op |-> "tuple", item |-> ops, r |-> x.r,
                               index |-> x.d.index, before |-> dec])
    /\ UNCHANGED <<enc, log, out, pc>>

\* read::<(A, B, ...)>() where values of the types A, B, ... were written
ReadTuple(ops) ==
    /\ pc = "dec"
    /\ LET k == Consumed(reads)
       IN  /\ k + Len(ops) <= Len(FlatPlan)
           /\ \A j \in 1..Len(ops) : FlatPlan[k + j].op = ops[j]
    /\ \E wraps \in BOOLEAN : DidReadTuple(ops, Decode_tuple(dec, ops, wraps, <<>>))

CanWriteTuple == Len(log) < MaxTupleWrites /\ out = <<>>

\* tuples of 2, 3 and 10 elements
TupleInputs ==
    { <<<<"uint8", "bool">>, <<7, TRUE>>>>,
      <<<<"bool", "uint16">>, <<TRUE, 9001>>>>,
      <<<<"bool", "bool", "uint8">>, <<FALSE, TRUE, 9>>>>,
      <<<<"bool", "bool", "bool", "bool", "bool", "bool", "bool", "bool", "bool", "uint8">>,
        <<TRUE, FALSE, TRUE, TRUE, FALSE, FALSE, TRUE, TRUE, TRUE, 255>>>> }

TupleTypes == {t[1] : t \in TupleInputs} \cup {<<"bool", "uint8">>}

NextTuple ==
    \/ CanWriteTuple /\ \E v \in BOOLEAN : Write_bool(v)
    \/ CanWriteTuple /\ \E v \in {200} : Write_uint8(v)
    \/ CanWriteTuple /\ \E t \in TupleInputs : WriteTuple(t[1], t[2])
    \/ log # <<>> /\ out = <<>> /\ End
    \/ NewDecoder
    \/ ReadElem
    \/ \E ops \in TupleTypes : ReadTuple(ops)

SpecTuple == Init /\ [][NextTuple]_vars

\* the reads of the element types made one after another on one Decoder
RECURSIVE ReadEach(_, _, _)
ReadEach(d, ops, got) ==
    IF ops = <<>> THEN [d |-> d, r |-> Ok(got)]
    ELSE LET x == ReadOp(d, Head(ops), FALSE)
         IN  IF ~x.r.ok THEN x
             ELSE ReadEach(x.d, Tail(ops), Append(got, x.r.val))

\* the values written for the elements read i takes
TupleValuesFor(i) ==
    LET k == Consumed(SubSeq(reads, 1, i - 1))
    IN  IF reads[i].op = "tuple"
        THEN [j \in 1..Len(reads[i].item) |-> FlatPlan[k + j].val]
        ELSE FlatPlan[k + 1].val

\* C18: a tuple of 2..10 elements written through BitEncode leaves the
\* Encoder as the writes of its elements made one after another on the same
\* Encoder do (the same bytes, no size before them, the same boolean
\* cursor); a tuple read gives what the reads of the element types made in
\* declared order on the same Decoder give, and leaves the same Decoder;
\* written either way and read either way the values come back in order.
C18_TupleFormat ==
    /\ (pc = "enc" /\ log # <<>> /\ log[Len(log)].op = "tuple") =>
          LET w == log[Len(log)]
          IN  /\ Len(w.item) \in 2..10
              /\ enc = WriteAll(w.before, ElementWise(w))
    /\ pc = "dec" =>
          /\ \A i \in 1..Len(reads) : reads[i].r = Ok(TupleValuesFor(i))
          /\ (Consumed(reads) = Len(FlatPlan) => Decoder_end(dec))
          /\ (reads # <<>> /\ reads[Len(reads)].op = "tuple") =>
                LET last == reads[Len(reads)]
                IN  [d |-> dec, r |-> last.r] = ReadEach(last.before, last.item, <<>>)

\* true was written, then the tuple (false, true, 9): the three booleans share
\* the first of 2 bytes; they were read back as a bool and the tuple
C18_Witness ==
    /\ pc = "dec"
    /\ Len(Plan) = 2
    /\ Plan[1].op = "bool" /\ Plan[1].val = TRUE
    /\ Plan[2].op = "tuple" /\ Plan[2].item = <<"bool", "bool", "uint8">>
    /\ dec.data = <<5, 9>>
    /\ Len(reads) = 2
    /\ reads[2].op = "tuple"
    /\ reads[2].r = Ok(<<FALSE, TRUE, 9>>)
    /\ Decoder_end(dec)

(***************************************************************************)
(* SpecInt: integers of every width and sign written and read back         *)
(***************************************************************************)
MaxIntWrites == 2

\* zero, the minimum and the maximum of each type (tests uint8_zero ..
\* int64_min), -1 and a value whose bytes all differ
IntValues(op) ==
    CASE op = "uint8"  -> {0, 255, 18}
      [] op = "uint16" -> {0, 65535, 4660}
      [] op = "uint32" -> {<<0, 0>>, <<65535, 65535>>, <<4660, 22136>>}
      [] op = "uint64" -> {<<0, 0, 0, 0>>, <<65535, 65535, 65535, 65535>>,
                           <<258, 772, 1286, 1800>>}
      [] op = "int8"   -> {0, -128, 127, -1}
      [] op = "int16"  -> {0, -32768, 32767, -2}
      [] op = "int32"  -> {0, I32_MIN, 2147483647, -1, 305419896}
      [] op = "int64"  -> {<<0, 0, 0, 0>>, <<-32768, 0, 0, 0>>,
                           <<32767, 65535, 65535, 65535>>,
                           <<-1, 65535, 65535, 65535>>}

CanWriteInt == Len(log) < MaxIntWrites /\ out = <<>>

NextInt ==
    \/ CanWriteInt /\ \E v \in IntValues("uint8")  : Write_uint8(v)
    \/ CanWriteInt /\ \E v \in IntValues("uint16") : Write_uint16(v)
    \/ CanWriteInt /\ \E v \in IntValues("uint32") : Write_uint32(v)
    \/ CanWriteInt /\ \E v \in IntValues("uint64") : Write_uint64(v)
    \/ CanWriteInt /\ \E v \in IntValues("int8")   : Write_int8(v)
    \/ CanWriteInt /\ \E v \in IntValues("int16")  : Write_int16(v)
    \/ CanWriteInt /\ \E v \in IntValues("int32")  : Write_int32(v)
    \/ CanWriteInt /\ \E v \in IntValues("int64")  : Write_int64(v)
    \/ log # <<>> /\ out = <<>> /\ End
    \/ NewDecoder
    \/ ReadNext

SpecInt == Init /\ [][NextInt]_vars

\* the width in bits of an integer type
BitsOf(op) ==
    CASE op \in {"uint8", "int8"}   -> 8
      [] op \in {"uint16", "int16"} -> 16
      [] op \in {"uint32", "int32"} -> 32
      [] op \in {"uint64", "int64"} -> 64

\* v mod 2^w as limbs of 16 bits, the most significant first (one limb of 8
\* bits for w = 8); v is an integer up to 32 bits and a limb sequence above
ModTwoToThe(op, v) ==
    CASE op \in {"uint8", "int8"}   -> <<v % 256>>
      [] op \in {"uint16", "int16"} -> <<v % 65536>>
      [] op = "uint32"              -> v
      [] op = "int32"               -> <<(v \div 65536) % 65536, v % 65536>>
      [] op = "uint64"              -> v
      [] op = "int64"               -> <<v[1] % 65536, v[2], v[3], v[4]>>

\* ((v mod 2^w) >> (w - 8(j+1))) & 0xFF, j counted from 0
ByteOf(op, v, j) ==
    LET w == BitsOf(op)
        m == ModTwoToThe(op, v)
        shift == w - 8 * (j + 1)
    IN  IF w = 8 THEN m[1]
        ELSE (m[Len(m) - shift \div 16] \div (IF shift % 16 = 8 THEN 256 ELSE 1)) % 256

\* C19: a write of a w-bit integer v appends w/8 bytes, byte j being
\* ((v mod 2^w) >> (w - 8(j+1))) & 0xFF; the read of the type gives v back
\* and moves the cursor by w/8 bytes.
C19_IntegerFormat ==
    /\ pc = "enc" =>
          \A i \in 1..Len(log) :
              LET w == log[i]
                  n == BitsOf(w.op) \div 8
              IN  /\ w.len = LenBefore(log, i) + n
                  /\ w.len <= Len(enc.data)
                  /\ \A j \in 0..(n - 1) :
                        enc.data[LenBefore(log, i) + j + 1] = ByteOf(w.op, w.val, j)
    /\ pc = "dec" =>
          \A i \in 1..Len(reads) :
              /\ reads[i].r = Ok(Plan[i].val)
              /\ reads[i].index = IndexBefore(i) + BitsOf(Plan[i].op) \div 8

\* the minimum of int64 and the maximum of uint64 were written, 16 bytes, and
\* both were read back
C19_Witness ==
    /\ pc = "dec"
    /\ Len(Plan) = 2
    /\ Plan[1].op = "int64" /\ Plan[1].val = <<-32768, 0, 0, 0>>
    /\ Plan[2].op = "uint64" /\ Plan[2].val = <<65535, 65535, 65535, 65535>>
    /\ dec.data = <<128, 0, 0, 0, 0, 0, 0, 0, 255, 255, 255, 255, 255, 255, 255, 255>>
    /\ Len(reads) = 2
    /\ reads[1].r = Ok(<<-32768, 0, 0, 0>>)
    /\ reads[2].r = Ok(<<65535, 65535, 65535, 65535>>)
    /\ Decoder_end(dec)

(***************************************************************************)
(* SpecFrame: blobs and strings of several lengths and contents written    *)
(* after other values                                                      *)
(***************************************************************************)
MaxFrameWrites == 2
MaxFrameLen == 300

FrameLens == {0, 1, 2, 127, 128, MaxFrameLen}

\* payloads of a length: all zero, all 0xFF, and bytes that all differ
FramePayloads(L) ==
    { [i \in 1..L |-> 0], [i \in 1..L |-> 255], [i \in 1..L |-> (37 * i) % 256] }

FrameBlobs == UNION {FramePayloads(L) : L \in FrameLens}

\* UTF-8 strings: "", "hi", "e" with an acute accent, and 'a' 128 times
FrameStrings == {<<>>, <<104, 105>>, <<195, 169>>, [i \in 1..128 |-> 97]}

CanWriteFrame == Len(log) < MaxFrameWrites /\ out = <<>>

NextFrame ==
    \/ CanWriteFrame /\ \E v \in BOOLEAN : Write_bool(v)
    \/ CanWriteFrame /\ \E v \in {200} : Write_uint8(v)
    \/ CanWriteFrame /\ \E v \in FrameBlobs : Write_bytes(v)
    \/ CanWriteFrame /\ \E v \in FrameStrings : Write_string(v)
    \/ log # <<>> /\ out = <<>> /\ End

SpecFrame == Init /\ [][NextFrame]_vars

\* C20: a write of a blob or string of L bytes appends sizeCodecLength(L) + L
\* bytes: the size encoding of L, then the payload bytes unchanged and in
\* order, whatever the payload holds and whatever was written before.
C20_BlobFraming ==
    pc = "enc" =>
        \A i \in 1..Len(log) :
            log[i].op \in {"bytes", "string"} =>
                LET L == Len(log[i].val)
                    k == ClaimedSizeLen(ToWord(L))
                    from == LenBefore(log, i)
                IN  /\ Appended(log, i) = k + L
                    /\ log[i].len <= Len(enc.data)
                    /\ SubSeq(enc.data, from + 1, from + k)
                           = Encoder_size(Encoder_new, ToWord(L)).data
                    /\ SubSeq(enc.data, from + k + 1, log[i].len) = log[i].val

\* a byte was written, then a blob of 128 bytes: 1 + 2 + 128 bytes, the
\* blob's size in bytes 2 and 3
C20_Witness ==
    /\ pc = "enc"
    /\ Len(log) = 2
    /\ log[1].op = "uint8"
    /\ log[2].op = "bytes" /\ Len(log[2].val) = 128
    /\ Len(enc.data) = 131
    /\ SubSeq(enc.data, 1, 3) = <<200, 128, 128>>
    /\ enc.data[131] = (37 * 128) % 256

(***************************************************************************)
(* C21                                                                     *)
(***************************************************************************)
\* the payload read i finds after the length prefix s, when it is all there
PayloadOf(s) == SubSeq(s.d.data, s.d.index + 1, s.d.index + WordToNat(s.r.val))

\* what the claim gives for a string read on the length prefix s
StringResult(s) ==
    IF ~s.r.ok \/ WordAbove(s.r.val, Len(s.d.data) - s.d.index)
    THEN Err("ReadingOutOfBounds")
    ELSE IF IsUtf8(PayloadOf(s)) THEN Ok(PayloadOf(s))
    ELSE Err("Utf8Encoding")

\* C21 as claimed: a string read (borrowed or owned) gives the payload when
\* the blob is all there and is valid UTF-8, fails with Utf8Encoding when it
\* is all there and is not valid UTF-8, and fails with ReadingOutOfBounds when
\* the blob is truncated.
C21_Original ==
    pc = "free" =>
        \A i \in 1..Len(reads) :
            reads[i].op \in {"string", "String"} => reads[i].r = StringResult(PrefixOf(i))

(***************************************************************************)
(* bitsparrow_derive: enums                                                *)
(***************************************************************************)
\* an enum type is the sequence of its variants, a variant the sequence of
\* the types of its fields (none for a unit variant)
FieldWrites(ops, vals) == [j \in 1..Len(ops) |-> [op |-> ops[j], val |-> vals[j]]]

\* encode_enum that numbers the variants from 1
Encode_enum_FromOne(e, variants, index, vals) ==
    WriteAll(Encoder_size(e, ToWord(index + 1)), FieldWrites(variants[index + 1], vals))

\* encode_enum: BitEncode::encode(&#index, e) with index the usize position of
\* the variant from 0, then BitEncode::encode of each field in order
Encode_enum(e, variants, index, vals) ==
    WriteAll(Encoder_size(e, ToWord(index)), FieldWrites(variants[index + 1], vals))

\* Ok(#ident::#varstruct): the variant and its decoded fields
MapFields(index, x) ==
    IF ~x.r.ok THEN x ELSE [d |-> x.d, r |-> Ok([variant |-> index, fields |-> x.r.val])]

\* the arm of decode_enum for the discriminant x that was read: the fields of
\* variant #index (decode_struct), or `_ => return Err(Error::InvalidData)`
MatchVariant(x, variants, wraps) ==
    IF ~x.r.ok THEN x
    ELSE IF ~WordLess(x.r.val, ToWord(Len(variants)))
    THEN [d |-> x.d, r |-> Err("InvalidData")]
    ELSE MapFields(WordToNat(x.r.val),
                   Decode_tuple(x.d, variants[WordToNat(x.r.val) + 1], wraps, <<>>))

\* decode_enum: match BitDecode::decode(d)? { ... }
Decode_enum(d, variants, wraps) == MatchVariant(Decoder_size(d), variants, wraps)

(***************************************************************************)
(* SpecEnum: enum values written and read back, and enums read from any    *)
(* bytes                                                                   *)
(***************************************************************************)
MaxEnumWrites == 3
MaxEnumTail == 2
MaxEnumReads == 2

\* enum Doge { To, The, Moon } of tests/derive.rs
Doge == <<<<>>, <<>>, <<>>>>

\* enum Shape { Dot, Flag(bool), Box { w: u16, full: bool } }
Shape == <<<<>>, <<"bool">>, <<"uint16", "bool">>>>

EnumTypes == {Doge, Shape}

\* the values of the fields of a variant
FieldValues(ops) ==
    IF ops = <<>> THEN {<<>>}
    ELSE IF ops = <<"bool">> THEN {<<TRUE>>, <<FALSE>>}
    ELSE {<<9001, TRUE>>}

\* Encoder::write(value) for a value of an enum type
WriteEnum(variants, index, vals) ==
    /\ pc = "enc"
    /\ enc' = Encode_enum(enc, variants, index, vals)
    /\ log' = Append(log, [op |-> "enum", type |-> variants, index |-> index,
                           val |-> vals, len |-> Len(enc'.data), before |-> enc])
    /\ UNCHANGED <<out, dec, reads, pc>>

\* reads keeps the result x of an enum read and the Decoder it was made on
DidReadEnum(variants, x) ==
    /\ dec' = x.d
    /\ reads' = Append(reads, [op |-> "enum", type |-> variants, r |-> x.r,
                               index |-> x.d.index, before |-> dec])
    /\ UNCHANGED <<enc, log, out, pc>>

\* the read of what was written next: an enum of the type written, or a bool
ReadNextEnum ==
    /\ pc = "dec"
    /\ Len(reads) < Len(Plan)
    /\ IF Plan[Len(reads) + 1].op = "enum"
       THEN \E wraps \in BOOLEAN :
               DidReadEnum(Plan[Len(reads) + 1].type,
                           Decode_enum(dec, Plan[Len(reads) + 1].type, wraps))
       ELSE DoRead(Plan[Len(reads) + 1].op)

\* read::<T>() for an enum type T on any bytes
ReadEnumFree(variants) ==
    /\ pc = "free"
    /\ \E wraps \in BOOLEAN : DidReadEnum(variants, Decode_enum(dec, variants, wraps))

\* discriminants 0 .. 4, 3 in two bytes, 2^64 - 1, and a cut one
EnumHeads ==
    { <<>>, <<0>>, <<1>>, <<2>>, <<3>>, <<4>>, <<128, 3>>, <<128>>,
      <<255, 255, 255, 255, 255, 255, 255, 255, 255>> }

EnumSources == {h \o SubSeq(Filler, 1, t) : h \in EnumHeads, t \in 0..MaxEnumTail}

CanWriteEnum == Len(log) < MaxEnumWrites /\ out = <<>>

NextEnum ==
    \/ CanWriteEnum /\ \E v \in BOOLEAN : Write_bool(v)
    \/ CanWriteEnum /\ \E T \in EnumTypes : \E i \in 0..(Len(T) - 1) :
                           \E vals \in FieldValues(T[i + 1]) : WriteEnum(T, i, vals)
    \/ log # <<>> /\ out = <<>> /\ End
    \/ NewDecoder
    \/ ReadNextEnum
    \/ \E src \in EnumSources : NewDecoderOn(src)
    \/ Len(reads) < MaxEnumReads /\ \E T \in EnumTypes : ReadEnumFree(T)

SpecEnum == Init /\ [][NextEnum]_vars

\* the writes the claim gives for a logged enum write
EnumWireWrites(w) ==
    <<[op |-> "size", val |-> ToWord(w.index)]>> \o FieldWrites(w.type[w.index + 1], w.val)

\* the value written by write i of the plan, as a read returns it
WrittenValue(w) ==
    IF w.op = "enum" THEN [variant |-> w.index, fields |-> w.val] ELSE w.val

\* C22: variant i (from 0, in declaration order) of a derived enum is written
\* as the size encoding of i, then its fields in order, on the same Encoder
\* (To, The, Moon give the bytes 0, 1, 2); read back, the variant and its
\* fields return; on any bytes an enum read fails with InvalidData exactly
\* when the discriminant read is m or more, m the number of variants.
C22_EnumFraming ==
    /\ (pc = "enc" /\ log # <<>> /\ log[Len(log)].op = "enum") =>
          enc = WriteAll(log[Len(log)].before, EnumWireWrites(log[Len(log)]))
    /\ pc = "dec" =>
          /\ \A i \in 1..Len(reads) : reads[i].r = Ok(WrittenValue(Plan[i]))
          /\ (Len(reads) = Len(Plan) => Decoder_end(dec))
    /\ pc = "free" =>
          \A i \in 1..Len(reads) :
              LET s == Decoder_size(reads[i].before)
              IN  (reads[i].r = Err("InvalidData"))
                      <=> (s.r.ok /\ ~WordLess(s.r.val, ToWord(Len(reads[i].type))))

\* To, The and Moon were written: the bytes 0, 1, 2, and they were read back
C22_Witness ==
    /\ pc = "dec"
    /\ Len(Plan) = 3
    /\ \A i \in 1..3 : Plan[i].op = "enum" /\ Plan[i].type = Doge /\ Plan[i].index = i - 1
    /\ dec.data = <<0, 1, 2>>
    /\ Len(reads) = 3
    /\ reads[3].r = Ok([variant |-> 2, fields |-> <<>>])

(***************************************************************************)
(* SpecEnd: end() asked between reads of any type on any bytes             *)
(***************************************************************************)
MaxEndReads == 2

EndSources == BlobSources \cup SeqsUpTo(WholeBytes, 2)

EndOps == {"bool", "uint8", "uint16", "size", "bytes", "String", "slice_bool"}

\* Decoder::end(&self): reads keeps the answer and the Decoder before and after
AskEnd ==
    /\ pc = "free"
    /\ dec' = dec
    /\ reads' = Append(reads, [op |-> "end", r |-> Ok(Decoder_end(dec)),
                               index |-> dec.index, before |-> dec, after |-> dec'])
    /\ UNCHANGED <<enc, log, out, pc>>

NextEnd ==
    \/ \E src \in EndSources : NewDecoderOn(src)
    \/ Len(reads) < MaxEndReads /\ \E op \in EndOps : Read(op)
    \/ Len(reads) < MaxEndReads + 1 /\ AskEnd

SpecEnd == Init /\ [][NextEnd]_vars

\* C23: the cursor of a Decoder is between 0 and the length of its source;
\* end() answers true exactly when the cursor is at the length of the source,
\* and leaves the Decoder as it was.
C23_EndQuery ==
    pc = "free" =>
        /\ dec.index >= 0 /\ dec.index <= Len(dec.data)
        /\ \A i \in 1..Len(reads) :
              /\ reads[i].index >= 0 /\ reads[i].index <= Len(dec.data)
              /\ reads[i].op = "end" =>
                    /\ reads[i].r = Ok(reads[i].before.index = Len(dec.data))
                    /\ reads[i].after = reads[i].before

\* end() answered false on 3 unread bytes; a blob of 2 bytes was read, which
\* took them all, and end() answered true
C23_Witness ==
    /\ pc = "free"
    /\ dec.data = <<2, 97, 98>>
    /\ Len(reads) = 3
    /\ reads[1].op = "end" /\ reads[1].r = Ok(FALSE)
    /\ reads[2].op = "bytes" /\ reads[2].r = Ok(<<97, 98>>)
    /\ reads[3].op = "end" /\ reads[3].r = Ok(TRUE)
    /\ dec.index = 3

(***************************************************************************)
(* lib.rs: the Encoder that keeps the last error                           *)
(***************************************************************************)
\* Encoder::new of lib.rs
Lib_Encoder_new ==
    [data |-> <<>>, bool_index |-> USIZE_MAX, bool_shift |-> 0, last_error |-> "None"]

\* Encoder::uint8 / uint16 / uint32 of lib.rs (a u32 is two limbs)
Lib_uint8(e, v)  == [e EXCEPT !.data = Append(@, v)]
Lib_uint16(e, v) == [e EXCEPT !.data = @ \o <<v \div 256, v % 256>>]
Lib_uint32(e, v) ==
    [e EXCEPT !.data = @ \o <<v[1] \div 256, v[1] % 256, v[2] \div 256, v[2] % 256>>]

\* Encoder::bool of lib.rs
Lib_bool(e, v) ==
    LET bool_bit == IF v THEN 1 ELSE 0
        index    == Len(e.data)
    IN  IF e.bool_index = index /\ e.bool_shift < 7
        THEN [e EXCEPT !.bool_shift = @ + 1,
                       !.data[index] = BitOr8(@, bool_bit * Pow2(e.bool_shift + 1))]
        ELSE Lib_uint8([e EXCEPT !.bool_index = index + 1, !.bool_shift = 0], bool_bit)

\* Encoder::size of lib.rs that rejects from 0x3FFFFFFF on
Lib_size_RejectFrom(e, size) ==
    IF size >= 1073741823 THEN [e EXCEPT !.last_error = "SizeValueTooLarge"]
    ELSE IF size < 128 THEN Lib_uint8(e, size)
    ELSE IF size < 16384 THEN Lib_uint16(e, size + 32768)
    ELSE Lib_uint32(e, <<size \div 65536 + 49152, size % 65536>>)

\* Encoder::size of lib.rs (size is a number below 2^31)
Lib_size(e, size) ==
    IF size > 1073741823 THEN [e EXCEPT !.last_error = "SizeValueTooLarge"]
    ELSE IF size < 128 THEN Lib_uint8(e, size)
    ELSE IF size < 16384 THEN Lib_uint16(e, size + 32768)
    ELSE Lib_uint32(e, <<size \div 65536 + 49152, size % 65536>>)

\* Encoder::bytes / Encoder::string of lib.rs: b.len is bytes.len(), b.data
\* the bytes (not held for a slice too long to be written)
Lib_bytes(e, b) ==
    IF b.len > 1073741823 THEN [e EXCEPT !.last_error = "BytesTooLong"]
    ELSE [Lib_size(e, b.len) EXCEPT !.data = @ \o b.data]

Lib_string(e, b) ==
    IF b.len > 1073741823 THEN [e EXCEPT !.last_error = "StringTooLong"]
    ELSE [Lib_size(e, b.len) EXCEPT !.data = @ \o b.data]

\* Encoder::end of lib.rs: the Encoder it leaves and the Result it returns
Lib_end(e) ==
    IF e.last_error # "None"
    THEN [e |-> [e EXCEPT !.last_error = "None"], r |-> Err(e.last_error)]
    ELSE [e |-> [e EXCEPT !.bool_index = USIZE_MAX, !.bool_shift = 0, !.data = <<>>],
          r |-> Ok(e.data)]

Lib_WriteOp(e, w) ==
    CASE w.op = "bool"   -> Lib_bool(e, w.val)
      [] w.op = "uint8"  -> Lib_uint8(e, w.val)
      [] w.op = "uint16" -> Lib_uint16(e, w.val)
      [] w.op = "size"   -> Lib_size(e, w.val)
      [] w.op = "bytes"  -> Lib_bytes(e, w.val)
      [] w.op = "string" -> Lib_string(e, w.val)

RECURSIVE Lib_WriteAll(_, _)
Lib_WriteAll(e, ws) ==
    IF ws = <<>> THEN e ELSE Lib_WriteAll(Lib_WriteOp(e, Head(ws)), Tail(ws))

(***************************************************************************)
(* SpecLib: chains of writes on the Encoder of lib.rs, each closed by end() *)
(***************************************************************************)
MaxLibWrites == 3
MaxLibEnds == 2

InitLib ==
    /\ enc = Lib_Encoder_new
    /\ log = <<>>
    /\ out = <<>>
    /\ dec = Decoder_new(<<>>)
    /\ reads = <<>>
    /\ pc = "lib"

\* one write of a chain; the log keeps the buffer length before and after it
Lib_Write(op, val) ==
    /\ pc = "lib"
    /\ enc' = Lib_WriteOp(enc, [op |-> op, val |-> val])
    /\ log' = Append(log, [op |-> op, val |-> val,
                           before |-> enc.data, after |-> enc'.data])
    /\ UNCHANGED <<out, dec, reads, pc>>

\* end(): out keeps the Result, the writes of the chain and the Encoder left
Lib_End ==
    /\ pc = "lib"
    /\ out' = Append(out, [r |-> Lib_end(enc).r, log |-> log, held |-> enc.data,
                           left |-> Lib_end(enc).e])
    /\ enc' = Lib_end(enc).e
    /\ log' = <<>>
    /\ UNCHANGED <<dec, reads, pc>>

\* sizes around 2^7, 2^14 and 0x3FFFFFFF
LibSizes == {5, 300, 16384, 1073741823, 1073741824}

\* a slice of 2 bytes, and one of 0x40000000 bytes
LibBlobs == {[len |-> 2, data |-> <<97, 98>>], [len |-> 1073741824, data |-> <<>>]}

CanWriteLib == Written(out) + Len(log) < MaxLibWrites

NextLib ==
    \/ CanWriteLib /\ \E v \in BOOLEAN : Lib_Write("bool", v)
    \/ CanWriteLib /\ \E v \in {200} : Lib_Write("uint8", v)
    \/ CanWriteLib /\ \E v \in {9001} : Lib_Write("uint16", v)
    \/ CanWriteLib /\ \E v \in LibSizes : Lib_Write("size", v)
    \/ CanWriteLib /\ \E v \in LibBlobs : Lib_Write("bytes", v)
    \/ CanWriteLib /\ \E v \in LibBlobs : Lib_Write("string", v)
    \/ Len(out) < MaxLibEnds /\ Lib_End

SpecLib == InitLib /\ [][NextLib]_vars

\* the error the claim gives for a write: "None" when it is accepted
Rejection(w) ==
    CASE w.op = "size"   -> IF w.val > 1073741823 THEN "SizeValueTooLarge" ELSE "None"
      [] w.op = "bytes"  -> IF w.val.len > 1073741823 THEN "BytesTooLong" ELSE "None"
      [] w.op = "string" -> IF w.val.len > 1073741823 THEN "StringTooLong" ELSE "None"
      [] OTHER           -> "None"

\* the error of the last rejected write of a chain, "None" when none is
RECURSIVE LastRejection(_)
LastRejection(l) ==
    IF l = <<>> THEN "None"
    ELSE IF Rejection(l[Len(l)]) # "None" THEN Rejection(l[Len(l)])
    ELSE LastRejection(SubSeq(l, 1, Len(l) - 1))

\* C24: on the Encoder of lib.rs a rejected write (a size above 0x3FFFFFFF,
\* bytes or a string longer than that) appends nothing; end() returns Err
\* with the error of the last rejected write of the chain, and Ok with the
\* buffer when no write of the chain was rejected.
C24_ErrorLatch ==
    pc = "lib" =>
        /\ \A i \in 1..Len(log) :
              Rejection(log[i]) # "None" => log[i].after = log[i].before
        /\ enc.last_error = LastRejection(log)
        /\ \A k \in 1..Len(out) :
              IF LastRejection(out[k].log) # "None"
              THEN out[k].r = Err(LastRejection(out[k].log))
              ELSE out[k].r = Ok(out[k].held)

\* a byte, a size that is too large and a string that is too long were
\* written: end() returned Err(StringTooLong)
C24_Witness ==
    /\ pc = "lib"
    /\ Len(out) = 1
    /\ Len(out[1].log) = 3
    /\ out[1].log[1].op = "uint8"
    /\ out[1].log[2].op = "size" /\ out[1].log[2].val = 1073741824
    /\ out[1].log[3].op = "string" /\ out[1].log[3].val.len = 1073741824
    /\ out[1].held = <<200>>
    /\ out[1].r = Err("StringTooLong")

\* C25 as claimed: after end() has returned, Ok or Err, the Encoder of lib.rs
\* is as Encoder::new() makes it (empty buffer, no open boolean byte, no
\* stored error), so every chain closed by end() gives what the same writes
\* and end() give on a new Encoder.
C25_Original ==
    pc = "lib" =>
        \A k \in 1..Len(out) :
            /\ out[k].left = Lib_Encoder_new
            /\ out[k].r = Lib_end(Lib_WriteAll(Lib_Encoder_new, out[k].log)).r

(***************************************************************************)
(* SpecBreak: bool reads between reads of other types, on any bytes        *)
(***************************************************************************)
MaxBreakLen == 3
MaxBreakReads == 3

BreakSources == SeqsUpTo({0, 1, 2, 253}, MaxBreakLen)

BreakOps == {"uint8", "uint16", "float32", "size", "bytes", "string"}

\* reads keeps the result x of a read and the Decoder before and after it
DidReadKept(op, x) ==
    /\ dec' = x.d
    /\ reads' = Append(reads, [op |-> op, r |-> x.r, index |-> x.d.index,
                               before |-> dec, after |-> x.d])
    /\ UNCHANGED <<enc, log, out, pc>>

\* any read on a Decoder over any bytes
ReadKept(op) ==
    /\ pc = "free"
    /\ \E wraps \in BOOLEAN : DidReadKept(op, ReadOp(dec, op, wraps))

NextBreak ==
    \/ \E src \in BreakSources : NewDecoderOn(src)
    \/ Len(reads) < MaxBreakReads /\ ReadKept("bool")
    \/ Len(reads) < MaxBreakReads /\ \E op \in BreakOps : ReadKept(op)

SpecBreak == Init /\ [][NextBreak]_vars

\* the bool read b consumed a new byte: the cursor moved by one and b is bit
\* 0 of the byte it passed (ReadingOutOfBounds when no byte was left)
TookNewByte(b) ==
    IF b.before.index < Len(b.before.data)
    THEN /\ b.after.index = b.before.index + 1
         /\ b.r = Ok(Bit(b.before.data[b.before.index + 1], 0) = 1)
    ELSE /\ b.after.index = b.before.index
         /\ b.r = Err("ReadingOutOfBounds")

\* the bool read b returned the bit after `shift` of the byte before the
\* cursor, and left the cursor
TookNextBit(b, shift) ==
    /\ b.after.index = b.before.index
    /\ b.r = Ok(Bit(b.before.data[b.before.index], shift + 1) = 1)

\* the bool reads that follow a read of another type
AfterOther == {i \in 2..Len(reads) : reads[i].op = "bool" /\ reads[i - 1].op # "bool"}

\* C26 as claimed: after any read that is not a bool read, whatever its
\* outcome, the next bool() consumes a new byte.
C26_Original ==
    pc = "free" => \A i \in AfterOther : TookNewByte(reads[i])

\* C26: a read of another type that advanced the cursor breaks the run, the
\* next bool() consumes a new byte; one that left the cursor has failed, and
\* the next bool() does what it would have done without it: it returns the
\* next bit of the open boolean byte when there is one with fewer than 8
\* bits taken, and consumes a new byte otherwise.
C26_RunBreak ==
    pc = "free" =>
        \A i \in AfterOther :
            LET p == reads[i - 1]
            IN  /\ p.after.index >= p.before.index
                /\ p.after.index > p.before.index => TookNewByte(reads[i])
                /\ p.after.index = p.before.index =>
                      /\ ~p.r.ok
                      /\ p.after = p.before
                      /\ IF p.before.bool_index = p.before.index /\ p.before.bool_shift < 7
                         THEN TookNextBit(reads[i], p.before.bool_shift)
                         ELSE TookNewByte(reads[i])

\* on the source [2]: bool() gave bit 0, uint16() failed, and bool() gave
\* bit 1 of the same byte
C26_Witness ==
    /\ pc = "free"
    /\ dec.data = <<2>>
    /\ Len(reads) = 3
    /\ reads[1].op = "bool" /\ reads[1].r = Ok(FALSE)
    /\ reads[2].op = "uint16" /\ reads[2].r = Err("ReadingOutOfBounds")
    /\ reads[3].op = "bool" /\ reads[3].r = Ok(TRUE)
    /\ dec.index = 1

(***************************************************************************)
(* SpecAtomic: fixed-width and bool reads that fail, and the reads after   *)
(* them                                                                    *)
(***************************************************************************)
MaxAtomicLen == 9
MaxAtomicReads == 3

AtomicSources == {SubSeq(Filler, 1, t) : t \in 0..MaxAtomicLen} \cup SeqsUpTo({2, 254}, 2)

FixedOps ==
    {"uint8", "uint16", "uint32", "uint64", "int8", "int16", "int32", "int64",
     "float32", "float64"}

NextAtomic ==
    \/ \E src \in AtomicSources : NewDecoderOn(src)
    \/ Len(reads) < MaxAtomicReads /\ ReadKept("bool")
    \/ Len(reads) < MaxAtomicReads /\ \E op \in FixedOps : ReadKept(op)
    \/ Len(reads) < MaxAtomicReads /\ \E op \in {"size", "bytes"} : ReadKept(op)

SpecAtomic == Init /\ [][NextAtomic]_vars

\* the fixed-width and bool reads that failed with ReadingOutOfBounds
FailedFixed ==
    {i \in 1..Len(reads) : /\ reads[i].op \in FixedOps \cup {"bool"}
                           /\ reads[i].r = Err("ReadingOutOfBounds")}

\* C27: a fixed-width or bool read that fails with ReadingOutOfBounds leaves
\* the Decoder (cursor, boolean byte position and bit index, source) as it
\* was, and the read after it gives what it gives without the failed read.
C27_FailedReadAtomic ==
    pc = "free" =>
        \A i \in FailedFixed :
            /\ reads[i].after = reads[i].before
            /\ i < Len(reads) =>
                  /\ reads[i + 1].before = reads[i].before
                  /\ [d |-> reads[i + 1].after, r |-> reads[i + 1].r]
                         = ReadOp(reads[i].before, reads[i + 1].op, FALSE)

\* on the source [2, 254]: bool() gave bit 0 of the first byte, uint32()
\* failed, and bool() gave bit 1 of the first byte
C27_Witness ==
    /\ pc = "free"
    /\ dec.data = <<2, 254>>
    /\ Len(reads) = 3
    /\ reads[1].op = "bool" /\ reads[1].r = Ok(FALSE)
    /\ reads[2].op = "uint32" /\ reads[2].r = Err("ReadingOutOfBounds")
    /\ reads[2].after = reads[1].after
    /\ reads[3].op = "bool" /\ reads[3].r = Ok(TRUE)
    /\ dec.index = 1

(***************************************************************************)
(* SpecPartial: size and blob reads on sources that stop inside a size     *)
(* prefix or inside a payload                                              *)
(***************************************************************************)
MaxPartialLen == 3
MaxPartialReads == 3

LongPrefixes ==
    { <<255, 0, 0, 0, 0, 0, 0, 0, 3, 97>>,
      <<255, 255, 255, 255, 255, 255, 255, 255, 247, 97>>,
      <<224, 0, 0, 6, 97, 98>> }

PartialSources ==
    SeqsUpTo({2, 97, 128, 192}, MaxPartialLen)
        \cup UNION {{SubSeq(h, 1, k) : k \in 4..Len(h)} : h \in LongPrefixes}

PartialOps == {"size", "bytes", "uint8"}

NextPartial ==
    \/ \E src \in PartialSources : NewDecoderOn(src)
    \/ Len(reads) < MaxPartialReads /\ \E op \in PartialOps : ReadKept(op)

SpecPartial == Init /\ [][NextPartial]_vars

\* the bytes of the size prefix that starts at the cursor of d, by its first byte
PrefixLenAt(d) == 1 + LeadingZeros8(BitNot8(d.data[d.index + 1]))

\* the size prefix that starts at the cursor of d is all within the source
PrefixComplete(d) ==
    /\ d.index < Len(d.data)
    /\ d.index + PrefixLenAt(d) <= Len(d.data)

\* C28: a size() read that fails with ReadingOutOfBounds leaves the cursor at
\* the end of the source, so that end() is true; a bytes() read that fails
\* with ReadingOutOfBounds on a complete size prefix leaves the cursor just
\* past the prefix, before the payload.
C28_NoRollBack ==
    pc = "free" =>
        \A i \in 1..Len(reads) :
            reads[i].r = Err("ReadingOutOfBounds") =>
                /\ reads[i].op = "size" =>
                      /\ reads[i].after.index = Len(reads[i].after.data)
                      /\ reads[i].after.index >= reads[i].before.index
                      /\ Decoder_end(reads[i].after)
                /\ (reads[i].op = "bytes" /\ PrefixComplete(reads[i].before)) =>
                      /\ reads[i].after.index
                             = reads[i].before.index + PrefixLenAt(reads[i].before)
                      /\ reads[i].after.data = reads[i].before.data

\* on the source [2, 192]: bytes() failed after its prefix, leaving the
\* cursor at 1, and size() then failed inside its prefix, leaving it at 2
C28_Witness ==
    /\ pc = "free"
    /\ dec.data = <<2, 192>>
    /\ Len(reads) = 2
    /\ reads[1].op = "bytes" /\ reads[1].r = Err("ReadingOutOfBounds")
    /\ reads[1].after.index = 1
    /\ reads[2].op = "size" /\ reads[2].r = Err("ReadingOutOfBounds")
    /\ dec.index = 2

(***************************************************************************)
(* SpecAppend: writes of every shape on one Encoder, message after message *)
(***************************************************************************)
MaxAppendWrites == 3
MaxAppendEnds == 2

AppendSlices ==
    { <<"bool", <<>>>>, <<"bool", <<TRUE>>>>,
      <<"bool", <<TRUE, FALSE, TRUE, TRUE, FALSE, FALSE, TRUE>>>>,
      <<"bool", <<TRUE, FALSE, TRUE, TRUE, FALSE, FALSE, TRUE, TRUE>>>> }

AppendTuples ==
    { <<<<"uint8", "bool">>, <<7, TRUE>>>>,
      <<<<"bool", "bool", "uint8">>, <<FALSE, TRUE, 9>>>> }

CanAppend == Written(out) + Len(log) < MaxAppendWrites

NextAppend ==
    \/ CanAppend /\ \E v \in BOOLEAN : Write_bool(v)
    \/ CanAppend /\ \E v \in {200} : Write_uint8(v)
    \/ CanAppend /\ \E v \in {ToWord(300)} : Write_size(v)
    \/ CanAppend /\ \E v \in {<<0, 255>>} : Write_bytes(v)
    \/ CanAppend /\ \E s \in AppendSlices : WriteSlice(s[1], s[2])
    \/ CanAppend /\ \E t \in AppendTuples : WriteTuple(t[1], t[2])
    \/ Len(out) < MaxAppendEnds /\ End

SpecAppend == Init /\ [][NextAppend]_vars

\* the writes of a log part by part, each with the type and the place in the
\* log (after the first n writes) of the write it is a part of
RECURSIVE PartsFrom(_, _)
PartsFrom(l, n) ==
    IF l = <<>> THEN <<>>
    ELSE [i \in 1..Len(ElementWise(Head(l))) |->
              [w |-> ElementWise(Head(l))[i], top |-> Head(l).op, at |-> n + 1]]
             \o PartsFrom(Tail(l), n + 1)

Parts(l) == PartsFrom(l, 0)

\* the Encoders of this message: es[k + 1] is the Encoder after k parts
RECURSIVE EncodersFrom(_, _)
EncodersFrom(e, p) ==
    IF p = <<>> THEN <<e>> ELSE <<e>> \o EncodersFrom(WriteOp(e, Head(p).w), Tail(p))

\* the part that appended byte n of the buffer
Appender(es, n) == CHOOSE j \in 1..(Len(es) - 1) :
                       Len(es[j + 1].data) >= n /\ Len(es[j].data) < n

\* the parts j..k of p are bool writes
AllBools(p, j, k) == \A i \in j..k : p[i].w.op = "bool"

\* part j of p is a bool written on its own, or a part of the write that
\* part k is a part of
PlainBoolOrSameWrite(p, j, k) ==
    \/ p[j].w.op = "bool" /\ p[j].top = "bool"
    \/ p[j].at = p[k].at

\* a write of type op changed nothing of the buffer it found, or is a bool
\* that set bit S+1 of its last byte, S being the bit index it found
KeptOrSetBit(op, e1, e2) ==
    /\ Len(e2.data) >= Len(e1.data)
    /\ \A j \in 1..(Len(e1.data) - 1) : e2.data[j] = e1.data[j]
    /\ Len(e1.data) > 0 =>
          \/ e2.data[Len(e1.data)] = e1.data[Len(e1.data)]
          \/ /\ op = "bool"
             /\ Len(e2.data) = Len(e1.data)
             /\ Bit(e1.data[Len(e1.data)], e1.bool_shift + 1) = 0
             /\ e2.data[Len(e1.data)] = e1.data[Len(e1.data)] + Pow2(e1.bool_shift + 1)

\* the write changed the last byte of the buffer it found
ChangedLast(e1, e2) ==
    Len(e1.data) > 0 /\ e2.data[Len(e1.data)] # e1.data[Len(e1.data)]

\* the buffer length never decreases within one message
LengthGrows == \A i \in 1..Len(log), j \in 1..Len(log) : i <= j => log[i].len <= log[j].len

\* C29 as stated: every write leaves the buffer's bytes as they are and never
\* shortens it, except a bool that sets bit S+1 of the last byte, and that
\* byte was appended by a bool write of the run: a bool never alters a byte
\* that a write of another type (a sequence, a tuple) left in the buffer.
C29_Original ==
    pc = "enc" =>
        LET p  == Parts(log)
            es == EncodersFrom(Encoder_new, p)
        IN  /\ es[Len(p) + 1] = enc
            /\ LengthGrows
            /\ \A k \in 1..Len(p) :
                  /\ KeptOrSetBit(p[k].w.op, es[k], es[k + 1])
                  /\ ChangedLast(es[k], es[k + 1]) =>
                        /\ AllBools(p, Appender(es, Len(es[k].data)), k)
                        /\ PlainBoolOrSameWrite(p, Appender(es, Len(es[k].data)), k)

\* C29: every write leaves the buffer's bytes as they are and never shortens
\* it, except a bool that sets bit S+1 of the last byte; that byte was
\* appended by a bool of the same run, written on its own or as an element
\* of a sequence or tuple, and only bools were written since.
C29_AppendOnly ==
    pc = "enc" =>
        LET p  == Parts(log)
            es == EncodersFrom(Encoder_new, p)
        IN  /\ es[Len(p) + 1] = enc
            /\ LengthGrows
            /\ \A k \in 1..Len(p) :
                  /\ KeptOrSetBit(p[k].w.op, es[k], es[k + 1])
                  /\ ChangedLast(es[k], es[k + 1]) =>
                        AllBools(p, Appender(es, Len(es[k].data)), k)

\* write(&[true][..]), write(true), write(200u8): the bool went into bit 1 of
\* the byte the sequence appended
C29_Witness ==
    /\ pc = "enc"
    /\ Len(log) = 3
    /\ log[1].op = "slice" /\ log[1].val = <<TRUE>>
    /\ log[2].op = "bool" /\ log[2].val = TRUE
    /\ log[3].op = "uint8"
    /\ enc.data = <<1, 3, 200>>

(***************************************************************************)
(* SpecCode: the bytes of one size against the bytes of every other size,  *)
(* and Decoder::size on those bytes with more bytes after them             *)
(***************************************************************************)
MaxCodeTail == 2
MaxCodeReads == 2

CodeTails ==
    {SubSeq(Filler, 1, t) : t \in 0..MaxCodeTail} \cup {<<0>>, <<128>>, <<255, 255>>}

\* Decoder::new over the buffer end() returned and the bytes tail after it
NewDecoderOnCode(tail) ==
    /\ pc = "enc"
    /\ Len(out) = 1
    /\ log = <<>>
    /\ dec' = Decoder_new(out[1].buf \o tail)
    /\ reads' = <<>>
    /\ pc' = "free"
    /\ UNCHANGED <<enc, log, out>>

NextCode ==
    \/ log = <<>> /\ out = <<>> /\ \E n \in SizeInputs : Write_size(n)
    \/ log # <<>> /\ out = <<>> /\ End
    \/ \E tail \in CodeTails : NewDecoderOnCode(tail)
    \/ Len(reads) < MaxCodeReads /\ ReadKept("size")

SpecCode == Init /\ [][NextCode]_vars

\* the bytes Encoder::size(n) writes
CodeOf(n) == Encoder_size(Encoder_new, n).data

\* a is the start of b
StartOf(a, b) == Len(a) <= Len(b) /\ SubSeq(b, 1, Len(a)) = a

\* a and b differ and neither is the start of the other
Apart(a, b) == LET x == a IN x # b /\ ~StartOf(x, b) /\ ~StartOf(b, x)

\* C30: the bytes of two distinct sizes differ and neither is the start of
\* the other, and the bytes of a size with any bytes after them are read as
\* that size, the cursor left just past them.
C30_PrefixFree ==
    out # <<>> =>
        LET m    == out[1].log[1].val
            code == out[1].buf
        IN  /\ pc = "enc" =>
                  /\ code = CodeOf(m)
                  /\ \A n \in SizeInputs \ {m} : Apart(CodeOf(n), code)
            /\ (pc = "free" /\ reads # <<>>) =>
                  /\ reads[1].r = Ok(m)
                  /\ reads[1].after.index = Len(code)
                  /\ reads[1].after.data = reads[1].before.data

\* 2^56 - 1 was written in 8 bytes and read back from them with [255, 255]
\* after them, which the second read took for the start of a size
C30_Witness ==
    /\ pc = "free"
    /\ out # <<>>
    /\ out[1].log[1].val = OnesWord(56)
    /\ Len(out[1].buf) = 8
    /\ Len(dec.data) = 10
    /\ Len(reads) = 2
    /\ reads[1].r = Ok(OnesWord(56))
    /\ reads[1].index = 8
    /\ reads[2].r = Err("ReadingOutOfBounds")

=============================================================================
